---- MODULE Spec2Model ----
(***************************************************************************)
(* Model of the WebCrawling pipeline: Crawler.crawl (src/crawler.py) and   *)
(* DataCleaner (src/data_cleaner.py).                                      *)
(*                                                                         *)
(* Text is modelled as a sequence of one-character strings, so that the    *)
(* string operations of the source (startswith, in, lower, strip, len)     *)
(* are computed rather than assumed.                                       *)
(***************************************************************************)
EXTENDS Integers, Sequences, FiniteSets, TLC

VARIABLES
    \* ---- Crawler.crawl (src/crawler.py) ----
    max_pages,      \* self.max_pages
    start_url,      \* company['url']
    domain,         \* urlparse(start_url).netloc
    visited_urls,   \* set of URLs
    to_visit,       \* FIFO queue of URLs
    results,        \* list of page_data
    page_count,     \* int
    pc,             \* "loop" while inside the while loop, "done" after return
    \* ---- observations of the run (not program state) ----
    requested,      \* sequence of URLs passed to requests.get, in order
    failed,         \* set of URLs whose try block raised before results.append
    delays,         \* number of completed time.sleep(self.delay) calls
    \* ---- DataCleaner.clean (src/data_cleaner.py) ----
    raw_data,       \* the argument of clean: the pages to clean
    product_pages,  \* the pages _filter_product_pages keeps
    cleaned_pages,  \* the list clean returns
    cstage,         \* "start" before clean runs, "done" after it returned
    \* ---- DataCleaner._clean_page_content, statement by statement ----
    pages_left,     \* the pages the loop of clean has still to take
    frame,          \* the locals of the running call
    step,           \* the statement the call is at, "idle" between calls
    tech_specs,     \* the module-level dict tech_specs (line 16)
    emitted,        \* the records appended to cleaned_pages so far
    \* ---- Analyzer.analyze (src/analyzer.py) ----
    product,        \* the argument of analyze
    apc,            \* the statement analyze is at
    prompt,         \* what _build_prompt returned
    attempt,        \* the loop variable of _call_deepseek_api
    posts,          \* number of requests.post calls made (observation)
    sleeps,         \* the arguments of the time.sleep calls made (observation)
    response,       \* what _call_deepseek_api returned
    analysis,       \* what analyze returned
    \* ---- the site that is crawled (input of a crawl) ----
    site            \* what a fetch of each URL gives, Anything when open

crawlVars == <<max_pages, start_url, domain, visited_urls, to_visit, results,
               page_count, pc, requested, failed, delays>>

cleanVars == <<raw_data, product_pages, cleaned_pages, cstage>>

extractVars == <<pages_left, frame, step, tech_specs, emitted>>

analyzeVars == <<product, apc, prompt, attempt, posts, sleeps, response, analysis>>

restOfCrawl == <<cleanVars, extractVars, analyzeVars, site>>

restOfClean == <<crawlVars, extractVars, analyzeVars, site>>

restOfExtract == <<crawlVars, cleanVars, analyzeVars, site>>

restOfAnalyze == <<crawlVars, cleanVars, extractVars, site>>

vars == <<crawlVars, cleanVars, extractVars, analyzeVars, site>>

----------------------------------------------------------------------------
(* Bounds of the model *)

MaxPagesBound == 3
MaxLinks == 2
\* the largest max_pages of a crawl of a given site
SiteMaxPages == 4
MaxRawPages == 2
MaxCalls == 2

----------------------------------------------------------------------------
(* Text helpers *)

StartsWith(s, p) ==
    /\ Len(s) >= Len(p)
    /\ SubSeq(s, 1, Len(p)) = p

----------------------------------------------------------------------------
(* URLs.  A URL is [scheme, netloc, path]; urlparse(u).netloc is the        *)
(* netloc component (host[:port]), which does not include the scheme.       *)

HTTPS == <<"h", "t", "t", "p", "s">>
HTTP == <<"h", "t", "t", "p">>
FTP == <<"f", "t", "p">>

Url(s, n, p) == [scheme |-> s, netloc |-> n, path |-> p]

Netloc(u) == u.netloc

\* str.startswith('http') on the URL text: the URL text begins with its scheme
\* followed by ":", and no modelled scheme is a proper prefix of "http"
UrlStartsWithHttp(u) == StartsWith(u.scheme, HTTP)

\* An anchor's href attribute
RelHref(p) == [kind |-> "rel", path |-> p]
AbsHref(s, n, p) == [kind |-> "abs", scheme |-> s, netloc |-> n, path |-> p]
NetRelHref(n, p) == [kind |-> "netrel", netloc |-> n, path |-> p]
BadHref == [kind |-> "bad"]

Hrefs ==
    { RelHref("/p"),
      RelHref("/"),
      NetRelHref("a.com", "/q"),
      AbsHref(HTTP, "a.com", "/p"),
      AbsHref(HTTPS, "a.com:8080", "/p"),
      AbsHref(FTP, "a.com", "/p"),
      BadHref }

\* urljoin(base, href) raises ValueError on an href such as "http://[bad"
UrljoinRaises(href) == href.kind = "bad"

\* urljoin(base, href) when it does not raise
Urljoin(base, href) ==
    CASE href.kind = "rel" -> Url(base.scheme, base.netloc, href.path)
      [] href.kind = "netrel" -> Url(base.scheme, href.netloc, href.path)
      [] href.kind = "abs" -> Url(href.scheme, href.netloc, href.path)

SeqsUpTo(S, n) == UNION { [1..k -> S] : k \in 0..n }

\* The anchors of a fetched page, in document order
LinkLists == SeqsUpTo(Hrefs, MaxLinks)

StartUrls == { Url(HTTPS, "a.com", "/") }

----------------------------------------------------------------------------
(* Crawler.crawl *)

\* mutants of the while condition: an off-by-one in either direction
LoopGuardInclusive == to_visit # <<>> /\ page_count <= max_pages
LoopGuardEarly == to_visit # <<>> /\ page_count + 1 < max_pages

\* while to_visit and page_count < self.max_pages
LoopGuard == to_visit # <<>> /\ page_count < max_pages

\* mutant: the visited check at dequeue is missing
AlreadyVisitedNever(u) == FALSE

\* if current_url in visited_urls: continue
AlreadyVisited(u) == u \in visited_urls

\* mutant: the same-domain test is missing
QualifiesAnyHost(absolute_url, visited) ==
    /\ UrlStartsWithHttp(absolute_url)
    /\ absolute_url \notin visited

\* mutant: the visited test at enqueue is missing
QualifiesIgnoringVisited(absolute_url, visited) ==
    /\ Netloc(absolute_url) = domain
    /\ UrlStartsWithHttp(absolute_url)

\* the two nested ifs that guard to_visit.append(absolute_url)
Qualifies(absolute_url, visited) ==
    /\ Netloc(absolute_url) = domain
    /\ UrlStartsWithHttp(absolute_url)
    /\ absolute_url \notin visited

\* for link in links: ... ; the loop is left by the exception urljoin raises.
\* The result is the queue after the loop and whether the loop raised.
RECURSIVE ProcessLinks(_, _, _, _)
ProcessLinks(current_url, links, queue, visited) ==
    IF links = <<>> THEN [queue |-> queue, raised |-> FALSE]
    ELSE IF UrljoinRaises(Head(links)) THEN [queue |-> queue, raised |-> TRUE]
    ELSE LET absolute_url == Urljoin(current_url, Head(links))
         IN ProcessLinks(current_url, Tail(links),
                IF Qualifies(absolute_url, visited)
                THEN Append(queue, absolute_url) ELSE queue,
                visited)

PageData(u) == [url |-> u]

\* requests.get(current_url) or raise_for_status raises: of an open site any
\* fetch may, of a given site the fetch of a URL it does not serve
FetchRaises(current_url) ==
    IF site.any THEN TRUE ELSE ~site.pages[current_url].ok

\* requests.get(current_url) returns a page
FetchReturns(current_url) ==
    IF site.any THEN TRUE ELSE site.pages[current_url].ok

\* soup.find_all('a', href=True) of the page fetched: the hrefs of its
\* anchors in document order
Anchors(current_url) ==
    IF site.any THEN LinkLists ELSE {site.pages[current_url].links}

InitCrawl ==
    /\ max_pages \in 0..MaxPagesBound
    /\ start_url \in StartUrls
    /\ domain = Netloc(start_url)
    /\ visited_urls = {}
    /\ to_visit = <<start_url>>
    /\ results = <<>>
    /\ page_count = 0
    /\ pc = "loop"
    /\ requested = <<>>
    /\ failed = {}
    /\ delays = 0

\* one iteration that pops an already visited URL and continues
SkipVisited ==
    /\ pc = "loop"
    /\ LoopGuard
    /\ AlreadyVisited(Head(to_visit))
    /\ to_visit' = Tail(to_visit)
    /\ UNCHANGED <<max_pages, start_url, domain, visited_urls, results,
                   page_count, pc, requested, failed, delays>>
    /\ UNCHANGED restOfCrawl

\* mutant: the URL is marked visited only after a successful fetch
FetchFailNotMarked ==
    /\ pc = "loop"
    /\ LoopGuard
    /\ ~AlreadyVisited(Head(to_visit))
    /\ LET current_url == Head(to_visit) IN
        /\ to_visit' = Tail(to_visit)
        /\ requested' = Append(requested, current_url)
        /\ failed' = failed \cup {current_url}
    /\ UNCHANGED <<max_pages, start_url, domain, visited_urls, results,
                   page_count, pc, delays>>
    /\ UNCHANGED restOfCrawl

\* mutant: the counter is incremented before the request instead of after it
FetchFailCounted ==
    /\ pc = "loop"
    /\ LoopGuard
    /\ ~AlreadyVisited(Head(to_visit))
    /\ LET current_url == Head(to_visit) IN
        /\ visited_urls' = visited_urls \cup {current_url}
        /\ to_visit' = Tail(to_visit)
        /\ requested' = Append(requested, current_url)
        /\ failed' = failed \cup {current_url}
    /\ page_count' = page_count + 1
    /\ UNCHANGED <<max_pages, start_url, domain, results, pc, delays>>
    /\ UNCHANGED restOfCrawl

\* one iteration whose requests.get / raise_for_status raises
FetchFail ==
    /\ pc = "loop"
    /\ LoopGuard
    /\ ~AlreadyVisited(Head(to_visit))
    /\ FetchRaises(Head(to_visit))
    /\ LET current_url == Head(to_visit) IN
        /\ visited_urls' = visited_urls \cup {current_url}
        /\ to_visit' = Tail(to_visit)
        /\ requested' = Append(requested, current_url)
        /\ failed' = failed \cup {current_url}
    /\ UNCHANGED <<max_pages, start_url, domain, results, page_count, pc, delays>>
    /\ UNCHANGED restOfCrawl

\* one iteration whose fetch succeeds and returns a page with anchors `links`
FetchOk ==
    /\ pc = "loop"
    /\ LoopGuard
    /\ ~AlreadyVisited(Head(to_visit))
    /\ FetchReturns(Head(to_visit))
    /\ \E links \in Anchors(Head(to_visit)) :
        LET current_url == Head(to_visit)
            visited == visited_urls \cup {current_url}
            out == ProcessLinks(current_url, links, Tail(to_visit), visited)
        IN
        /\ visited_urls' = visited
        /\ requested' = Append(requested, current_url)
        /\ results' = Append(results, PageData(current_url))
        /\ page_count' = page_count + 1
        /\ to_visit' = out.queue
        /\ delays' = IF out.raised THEN delays ELSE delays + 1
    /\ UNCHANGED <<max_pages, start_url, domain, pc, failed>>
    /\ UNCHANGED restOfCrawl

\* the while condition is false: return results
Return ==
    /\ pc = "loop"
    /\ ~LoopGuard
    /\ pc' = "done"
    /\ UNCHANGED <<max_pages, start_url, domain, visited_urls, to_visit, results,
                   page_count, requested, failed, delays>>
    /\ UNCHANGED restOfCrawl

NextCrawl == SkipVisited \/ FetchFail \/ FetchOk \/ Return

\* A given site: for each of its URLs whether the fetch succeeds and the
\* anchors of the page served
SiteUrls == { Url(HTTPS, "a.com", p) : p \in {"/", "/p", "/q", "/r"} }

SiteLinkLists ==
    { <<>>,
      <<RelHref("/p"), RelHref("/q")>>,
      <<RelHref("/p"), BadHref, RelHref("/q")>>,
      <<BadHref, RelHref("/q")>>,
      <<RelHref("/r")>>,
      <<RelHref("/q"), AbsHref(HTTPS, "b.com", "/")>> }

SitePages ==
    { [ok |-> FALSE, links |-> <<>>] } \cup { [ok |-> TRUE, links |-> l] : l \in SiteLinkLists }

\* crawl(company) of a given site
InitSite ==
    /\ \E pages \in [SiteUrls -> SitePages] : site = [any |-> FALSE, pages |-> pages]
    /\ max_pages \in 0..SiteMaxPages
    /\ start_url \in StartUrls
    /\ domain = Netloc(start_url)
    /\ visited_urls = {}
    /\ to_visit = <<start_url>>
    /\ results = <<>>
    /\ page_count = 0
    /\ pc = "loop"
    /\ requested = <<>>
    /\ failed = {}
    /\ delays = 0

----------------------------------------------------------------------------
(* Text.  A text is a sequence of characters, each a one-character string;  *)
(* a character outside ASCII is written as its code point, "U6280".         *)

LowerOf ==
    ("A" :> "a") @@ ("B" :> "b") @@ ("C" :> "c") @@ ("D" :> "d") @@
    ("E" :> "e") @@ ("F" :> "f") @@ ("G" :> "g") @@ ("H" :> "h") @@
    ("I" :> "i") @@ ("J" :> "j") @@ ("K" :> "k") @@ ("L" :> "l") @@
    ("M" :> "m") @@ ("N" :> "n") @@ ("O" :> "o") @@ ("P" :> "p") @@
    ("Q" :> "q") @@ ("R" :> "r") @@ ("S" :> "s") @@ ("T" :> "t") @@
    ("U" :> "u") @@ ("V" :> "v") @@ ("W" :> "w") @@ ("X" :> "x") @@
    ("Y" :> "y") @@ ("Z" :> "z")

\* str.lower()
Lower(s) == [i \in 1..Len(s) |-> IF s[i] \in DOMAIN LowerOf THEN LowerOf[s[i]] ELSE s[i]]

\* p in s
Contains(s, p) ==
    \E i \in 0..(Len(s) - Len(p)) : SubSeq(s, i + 1, i + Len(p)) = p

\* any(word in s for word in words)
ContainsAny(s, words) == \E k \in DOMAIN words : Contains(s, words[k])

\* the characters \s matches and str.strip() removes
IsSpace(c) == c \in {" ", "\n", "\t"}

\* the indices 1..n in increasing order: those of a text or of a list
Indices(n) == [i \in 1..n |-> i]

\* the first of the indices hits, 0 when there is none
First(hits) == Head(hits \o <<0>>)

\* the element of a one-element set.  Only({e : v \in {x}}) is e with v
\* standing for the value of x: a local variable that is assigned once
Only(S) == CHOOSE v \in S : TRUE

\* str.strip()
Strip(s) ==
    LET keep == SelectSeq(Indices(Len(s)), LAMBDA i : ~IsSpace(s[i]))
    IN IF keep = <<>> THEN <<>> ELSE SubSeq(s, keep[1], keep[Len(keep)])

\* re.sub(r'\s+', ' ', s): of a run of whitespace the first character stays,
\* as a space
CollapseSpace(s) ==
    LET keep == SelectSeq(Indices(Len(s)),
                          LAMBDA i : ~IsSpace(s[i]) \/ i = 1 \/ ~IsSpace(s[i - 1]))
    IN [n \in 1..Len(keep) |-> IF IsSpace(s[keep[n]]) THEN " " ELSE s[keep[n]]]

\* sep.join(parts)
RECURSIVE Join(_, _)
Join(sep, parts) ==
    IF parts = <<>> THEN <<>>
    ELSE IF Len(parts) = 1 THEN parts[1]
    ELSE parts[1] \o sep \o Join(sep, Tail(parts))

\* ''.join(parts)
RECURSIVE Concat(_)
Concat(parts) == IF parts = <<>> THEN <<>> ELSE Head(parts) \o Concat(Tail(parts))

----------------------------------------------------------------------------
(* Documents.  A parsed document (BeautifulSoup) is the sequence of its     *)
(* elements in document order; an element records its tag, its class and id *)
(* attributes, the text it holds directly (before its child elements), its  *)
(* parent (0 at top level), and for <meta> the property, name and content   *)
(* attributes.  An absent attribute is the empty text.                      *)

El(tag, cls, id, text, parent) ==
    [tag |-> tag, cls |-> cls, id |-> id, text |-> text, parent |-> parent,
     prop |-> <<>>, name |-> <<>>, content |-> <<>>]

Meta(prop, name, content) ==
    [tag |-> "meta", cls |-> <<>>, id |-> <<>>, text |-> <<>>, parent |-> 0,
     prop |-> prop, name |-> name, content |-> content]

\* element j is element i or one of its descendants
RECURSIVE InSubtree(_, _, _)
InSubtree(dom, i, j) ==
    IF j = i THEN TRUE
    ELSE IF j < i THEN FALSE
    ELSE InSubtree(dom, i, dom[j].parent)

\* the elements of the document, in document order
Elements(dom) == Indices(Len(dom))

\* the strings of the subtree of element i, in document order
Strings(dom, i) ==
    LET idx == SelectSeq(Elements(dom),
                         LAMBDA j : InSubtree(dom, i, j) /\ dom[j].text # <<>>)
    IN [n \in 1..Len(idx) |-> dom[idx[n]].text]

\* element.text
ElText(dom, i) == Concat(Strings(dom, i))

\* element.get_text(separator=sep, strip=True)
ElGetText(dom, i, sep) ==
    LET ss == Strings(dom, i)
        idx == SelectSeq(Indices(Len(ss)), LAMBDA n : Strip(ss[n]) # <<>>)
    IN Join(sep, [n \in 1..Len(idx) |-> Strip(ss[idx[n]])])

\* soup.get_text(separator=' ', strip=True) of the whole document
\* (crawler.py line 81): the text of script and style elements is left out
SoupGetText(dom) ==
    LET idx == SelectSeq(Elements(dom), LAMBDA j :
                   /\ Strip(dom[j].text) # <<>>
                   /\ dom[j].tag \notin {"script", "style"})
    IN Join(<<" ">>, [n \in 1..Len(idx) |-> Strip(dom[idx[n]].text)])

\* soup.find_all(tags): the elements with one of the tags, in document order
FindAll(dom, tags) == SelectSeq(Elements(dom), LAMBDA i : dom[i].tag \in tags)

\* the descendants of element i, in document order
Descendants(dom, i) ==
    SelectSeq(Elements(dom), LAMBDA j : j # i /\ InSubtree(dom, i, j))

\* element.find_all(tags): the same among the descendants of element i
FindAllIn(dom, i, tags) ==
    SelectSeq(Descendants(dom, i), LAMBDA j : dom[j].tag \in tags)


\* class_=lambda c: c and any(word in str(c).lower() for word in words)
ClassHasAny(el, words) == el.cls # <<>> /\ ContainsAny(Lower(el.cls), words)

\* id=lambda i: i and any(word in str(i).lower() for word in words)
IdHasAny(el, words) == el.id # <<>> /\ ContainsAny(Lower(el.id), words)

\* soup.find_all(tags, class_=lambda c: c and any(word in ... for word in words))
FindAllByClass(dom, tags, words) ==
    SelectSeq(FindAll(dom, tags), LAMBDA i : ClassHasAny(dom[i], words))

----------------------------------------------------------------------------
(* DataCleaner._remove_irrelevant_elements *)

\* for element in found: element.decompose()
Decompose(dom, found) ==
    LET kept == SelectSeq(Elements(dom), LAMBDA j :
                    \A n \in 1..Len(found) : ~InSubtree(dom, found[n], j))
    IN [n \in 1..Len(kept) |->
          [dom[kept[n]] EXCEPT !.parent =
              IF @ = 0 THEN 0
              ELSE First(SelectSeq(Indices(Len(kept)), LAMBDA m : kept[m] = @))]]

AdWords == <<<<"a", "d">>, <<"a", "d", "s">>, <<"a", "d", "v", "e", "r", "t", "i", "s", "e", "m", "e", "n", "t">>, <<"b", "a", "n", "n", "e", "r">>>>
SocialWords == <<<<"s", "o", "c", "i", "a", "l">>, <<"s", "h", "a", "r", "e">>, <<"f", "o", "l", "l", "o", "w">>>>
CommentWords == <<<<"c", "o", "m", "m", "e", "n", "t">>, <<"c", "o", "m", "m", "e", "n", "t", "s">>, <<"d", "i", "s", "c", "u", "s", "s">>>>

\* soup.find_all(class_=lambda c: c and any(word in ... for word in words))
WithClass(dom, words) ==
    SelectSeq(Elements(dom), LAMBDA i : ClassHasAny(dom[i], words))

\* the six removals, one after the other, each on what the last one left
RemoveScriptLike(dom) == Decompose(dom, FindAll(dom, {"script", "style", "iframe", "noscript"}))
RemoveNavLike(dom) == Decompose(dom, FindAll(dom, {"nav", "header"}))
\* mutant: the footers stay
RemoveFooterNothing(dom) == dom
RemoveFooter(dom) == Decompose(dom, FindAll(dom, {"footer"}))
RemoveAds(dom) == Decompose(dom, WithClass(dom, AdWords))
RemoveSocial(dom) == Decompose(dom, WithClass(dom, SocialWords))
RemoveComments(dom) == Decompose(dom, WithClass(dom, CommentWords))

RemoveIrrelevantElements(dom) ==
    RemoveComments(RemoveSocial(RemoveAds(RemoveFooter(RemoveNavLike(RemoveScriptLike(dom))))))

----------------------------------------------------------------------------
(* DataCleaner._filter_product_pages and _is_product_spec_page *)

\* self.product_url_patterns
product_url_patterns ==
    <<<<"/", "p", "r", "o", "d", "u", "c", "t">>, <<"/", "p", "r", "o", "d", "u", "c", "t", "s">>, <<"/", "d", "r", "o", "n", "e">>, <<"/", "u", "a", "v">>,
      <<"/", "s", "p", "e", "c", "i", "f", "i", "c", "a", "t", "i", "o", "n">>, <<"/", "t", "e", "c", "h">>, <<"/", "t", "e", "c", "h", "n", "i", "c", "a", "l">>, <<"/", "d", "e", "t", "a", "i", "l">>>>

\* any(re.search(pattern, url, re.IGNORECASE) for pattern in ...): no pattern
\* holds a regex metacharacter, so the search is a case-blind substring test
UrlMatchesPattern(url) == ContainsAny(Lower(url), product_url_patterns)

tech_keywords ==
    <<<<"U6280", "U672F", "U53C2", "U6570">>, <<"U6280", "U672F", "U89C4", "U683C">>, <<"U4EA7", "U54C1", "U89C4", "U683C">>, <<"U89C4", "U683C", "U53C2", "U6570">>, <<"U6027", "U80FD", "U53C2", "U6570">>,
      <<"U4EA7", "U54C1", "U53C2", "U6570">>, <<"U53C2", "U6570", "U914D", "U7F6E">>, <<"U6280", "U672F", "U6307", "U6807">>, <<"U4EA7", "U54C1", "U7279", "U6027">>, <<"U529F", "U80FD", "U7279", "U70B9">>,
      <<"s", "p", "e", "c", "i", "f", "i", "c", "a", "t", "i", "o", "n", "s">>, <<"t", "e", "c", "h", "n", "i", "c", "a", "l", " ", "d", "a", "t", "a">>, <<"p", "a", "r", "a", "m", "e", "t", "e", "r", "s">>, <<"p", "e", "r", "f", "o", "r", "m", "a", "n", "c", "e">>,
      <<"f", "e", "a", "t", "u", "r", "e", "s">>, <<"d", "i", "m", "e", "n", "s", "i", "o", "n", "s">>, <<"w", "e", "i", "g", "h", "t">>, <<"b", "a", "t", "t", "e", "r", "y">>, <<"c", "a", "m", "e", "r", "a">>, <<"s", "e", "n", "s", "o", "r">>,
      <<"U98DE", "U884C", "U65F6", "U95F4">>, <<"U7EED", "U822A", "U65F6", "U95F4">>, <<"U6700", "U5927", "U901F", "U5EA6">>, <<"U6700", "U5927", "U9AD8", "U5EA6">>, <<"U63A7", "U5236", "U8DDD", "U79BB">>, <<"U8F7D", "U91CD">>,
      <<"U5206", "U8FA8", "U7387">>, <<"U50CF", "U7D20">>, <<"U91CD", "U91CF">>, <<"U7535", "U6C60">>, <<"U76F8", "U673A">>, <<"U4F20", "U611F", "U5668">>, <<"U9065", "U63A7", "U5668">>>>

\* keyword_match = any(keyword in content.lower() for keyword in tech_keywords)
KeywordMatch(content) == ContainsAny(Lower(content), tech_keywords)

\* the thresholds 0.2 and 0.3, and every confidence, in hundredths
ThresholdWithKeyword == 20
ThresholdWithoutKeyword == 30

\* mutant: the two thresholds are swapped
IsProductSpecPageSwapped(content, model_confidence) ==
    model_confidence >
        (IF KeywordMatch(content) THEN ThresholdWithoutKeyword ELSE ThresholdWithKeyword)

\* threshold = 0.2 if keyword_match else 0.3; model_confidence > threshold.
\* model_confidence is what the sequence-classification model returns for
\* the page text.
IsProductSpecPage(content, model_confidence) ==
    model_confidence >
        (IF KeywordMatch(content) THEN ThresholdWithKeyword ELSE ThresholdWithoutKeyword)

\* the two nested ifs of the filter loop
IsProductPage(page) ==
    /\ UrlMatchesPattern(page.url)
    /\ IsProductSpecPage(page.content, page.conf)

----------------------------------------------------------------------------
(* DataCleaner._extract_product_name *)

\* soup.find('meta', property=prop) for name = "prop", and
\* soup.find('meta', attrs={'name': value}) for name = "name": the first such
\* element, 0 when there is none
FindMeta(dom, name, value) ==
    First(SelectSeq(FindAll(dom, {"meta"}), LAMBDA i :
              IF name = "prop" THEN dom[i].prop = value ELSE dom[i].name = value))

\* the separator class [\|\-–—_]
Separators == {"|", "-", "U2013", "U2014", "_"}

\* the first index >= m of s that is not whitespace, Len(s) + 1 when none
SkipSpace(s, m) ==
    Head(SelectSeq(Indices(Len(s)), LAMBDA n : n >= m /\ ~IsSpace(s[n]))
         \o <<Len(s) + 1>>)

\* r'\s*[\|\-–—_]\s*<one of words>.*$' matches s from index i: a run of
\* whitespace from i, a separator, whitespace, one of `words` (any text when
\* words is empty), and then no newline up to the end of s
SuffixMatchesAt(s, i, words) ==
    LET k == SkipSpace(s, i)
        w == SkipSpace(s, k + 1)
    IN /\ k <= Len(s)
       /\ s[k] \in Separators
       /\ \/ words = <<>>
          \/ \E n \in DOMAIN words : StartsWith(SubSeq(s, w, Len(s)), words[n])
       /\ \A j \in w..Len(s) : s[j] # "\n"

\* re.sub(r'\s*[\|\-–—_]\s*<one of words>.*$', '', s): the leftmost match
\* runs to the end of s, so s is cut where it starts
CutSuffix(s, words) ==
    LET start == First(SelectSeq(Indices(Len(s)),
                                 LAMBDA i : SuffixMatchesAt(s, i, words)))
    IN IF start = 0 THEN s ELSE SubSeq(s, 1, start - 1)

UpperOf ==
    ("a" :> "A") @@ ("b" :> "B") @@ ("c" :> "C") @@ ("d" :> "D") @@
    ("e" :> "E") @@ ("f" :> "F") @@ ("g" :> "G") @@ ("h" :> "H") @@
    ("i" :> "I") @@ ("j" :> "J") @@ ("k" :> "K") @@ ("l" :> "L") @@
    ("m" :> "M") @@ ("n" :> "N") @@ ("o" :> "O") @@ ("p" :> "P") @@
    ("q" :> "Q") @@ ("r" :> "R") @@ ("s" :> "S") @@ ("t" :> "T") @@
    ("u" :> "U") @@ ("v" :> "V") @@ ("w" :> "W") @@ ("x" :> "X") @@
    ("y" :> "Y") @@ ("z" :> "Z")

IsLetter(c) == c \in DOMAIN UpperOf \/ c \in DOMAIN LowerOf

\* str.title(): a letter that follows a letter is lowered, any other letter
\* is raised
TitleCase(s) ==
    [i \in 1..Len(s) |->
        IF ~IsLetter(s[i]) THEN s[i]
        ELSE IF i > 1 /\ IsLetter(s[i - 1])
             THEN (IF s[i] \in DOMAIN LowerOf THEN LowerOf[s[i]] ELSE s[i])
             ELSE (IF s[i] \in DOMAIN UpperOf THEN UpperOf[s[i]] ELSE s[i])]

\* s.split(sep) for a one-character sep
RECURSIVE Split(_, _)
Split(s, sep) ==
    LET cut == First(SelectSeq(Indices(Len(s)), LAMBDA i : s[i] = sep))
    IN IF cut = 0 THEN <<s>>
       ELSE <<SubSeq(s, 1, cut - 1)>> \o Split(SubSeq(s, cut + 1, Len(s)), sep)

\* re.sub(r'[-_]', ' ', part)
DashesToSpaces(s) == [i \in 1..Len(s) |-> IF s[i] \in {"-", "_"} THEN " " ELSE s[i]]

\* len(...) > 3 of strategies 1, 2, 3 and 5, and the bounds 3 < len < 50 of
\* the single <h1>
NameMinLen == 3
H1MaxLen == 50

ProductNameClasses ==
    <<<<"p", "r", "o", "d", "u", "c", "t", "-", "n", "a", "m", "e">>, <<"p", "r", "o", "d", "u", "c", "t", "-", "t", "i", "t", "l", "e">>, <<"p", "r", "o", "d", "u", "c", "t", "_", "n", "a", "m", "e">>,
      <<"p", "r", "o", "d", "u", "c", "t", "_", "t", "i", "t", "l", "e">>, <<"p", "r", "o", "d", "u", "c", "t", "n", "a", "m", "e">>, <<"p", "r", "o", "d", "u", "c", "t", "t", "i", "t", "l", "e">>>>

DroneWords ==
    <<<<"U65E0", "U4EBA", "U673A">>, <<"d", "r", "o", "n", "e">>, <<"u", "a", "v">>, <<"q", "u", "a", "d", "c", "o", "p", "t", "e", "r">>, <<"c", "o", "p", "t", "e", "r">>, <<"a", "i", "r", "c", "r", "a", "f", "t">>>>

UrlNameWords == <<<<"p", "r", "o", "d", "u", "c", "t">>, <<"d", "r", "o", "n", "e">>, <<"u", "a", "v">>, <<"m", "o", "d", "e", "l">>>>

SiteSuffixWords ==
    <<<<"U5B98", "U65B9", "U7F51", "U7AD9">>, <<"U5B98", "U7F51">>, <<"U8BE6", "U60C5">>, <<"U89C4", "U683C">>, <<"U53C2", "U6570">>, <<"U4EF7", "U683C">>,
      <<"U8D2D", "U4E70">>, <<"U8BA2", "U8D2D">>, <<"U5546", "U57CE">>, <<"U5546", "U5E97">>, <<"U4E13", "U5356", "U5E97">>>>

\* 1. the first of the four meta tags with content longer than 3
NameFromMeta(dom) ==
    LET meta_tags ==
            <<FindMeta(dom, "prop", <<"o", "g", ":", "t", "i", "t", "l", "e">>),
              FindMeta(dom, "name", <<"t", "i", "t", "l", "e">>),
              FindMeta(dom, "name", <<"p", "r", "o", "d", "u", "c", "t", ":", "t", "i", "t", "l", "e">>),
              FindMeta(dom, "name", <<"t", "w", "i", "t", "t", "e", "r", ":", "t", "i", "t", "l", "e">>)>>
        hit == First(SelectSeq(Indices(Len(meta_tags)), LAMBDA k :
                    /\ meta_tags[k] # 0
                    /\ dom[meta_tags[k]].content # <<>>
                    /\ Len(Strip(dom[meta_tags[k]].content)) > NameMinLen))
    IN IF hit = 0 THEN <<>> ELSE Strip(dom[meta_tags[hit]].content)

\* 2. the first h1, div, span with a product-name class and text longer than 3
NameFromSelectors(dom) ==
    LET product_selectors ==
            <<First(FindAllByClass(dom, {"h1"}, ProductNameClasses)),
              First(FindAllByClass(dom, {"div"}, ProductNameClasses)),
              First(FindAllByClass(dom, {"span"}, ProductNameClasses))>>
        hit == First(SelectSeq(Indices(Len(product_selectors)), LAMBDA k :
                    /\ product_selectors[k] # 0
                    /\ Len(Strip(ElText(dom, product_selectors[k]))) > NameMinLen))
    IN IF hit = 0 THEN <<>> ELSE Strip(ElText(dom, product_selectors[hit]))

\* soup.title
TitleIndex(dom) == First(FindAll(dom, {"title"}))

\* 3. the document title cut at the first separator, when longer than 3
NameFromTitle(dom) ==
    IF TitleIndex(dom) = 0 THEN <<>>
    ELSE LET title == CutSuffix(Strip(ElText(dom, TitleIndex(dom))), <<>>)
         IN IF Len(title) > NameMinLen THEN title ELSE <<>>

\* 4. the first h1 that holds a drone word, or the only h1 when its length is
\*    between 3 and 50
NameFromH1(dom) ==
    LET h1_tags == FindAll(dom, {"h1"})
        text(n) == Strip(ElText(dom, h1_tags[n]))
        hit == First(SelectSeq(Indices(Len(h1_tags)), LAMBDA n :
                    \/ ContainsAny(Lower(text(n)), DroneWords)
                    \/ /\ Len(h1_tags) = 1
                       /\ NameMinLen < Len(text(n))
                       /\ Len(text(n)) < H1MaxLen))
    IN IF hit = 0 THEN <<>> ELSE text(hit)

\* 5. the first URL part that holds a name word and is longer than 3
NameFromUrl(url) ==
    LET url_parts == Split(url, "/")
        hit == First(SelectSeq(Indices(Len(url_parts)), LAMBDA n :
                    /\ ContainsAny(Lower(url_parts[n]), UrlNameWords)
                    /\ Len(DashesToSpaces(url_parts[n])) > NameMinLen))
    IN IF hit = 0 THEN <<>> ELSE TitleCase(DashesToSpaces(url_parts[hit]))

\* 6. the raw document title
NameFromRawTitle(dom) ==
    IF TitleIndex(dom) = 0 THEN <<>> ELSE Strip(ElText(dom, TitleIndex(dom)))

\* the clean-up of a found name
CleanName(product_name) ==
    IF product_name = <<>> THEN <<>>
    ELSE CutSuffix(Strip(CollapseSpace(product_name)), SiteSuffixWords)

\* the first text of names that is not empty, the empty text when all are
FirstNonEmpty(names) ==
    LET hit == First(SelectSeq(Indices(Len(names)), LAMBDA k : names[k] # <<>>))
    IN IF hit = 0 THEN <<>> ELSE names[hit]

\* the cascade: a strategy runs only while product_name is still empty, so
\* product_name is what the first strategy that finds a name assigns
ExtractProductName(dom, url) ==
    Only({ CleanName(product_name) :
             product_name \in
                { FirstNonEmpty(names) :
                    names \in { <<NameFromMeta(dom), NameFromSelectors(dom),
                                  NameFromTitle(dom), NameFromH1(dom),
                                  NameFromUrl(url), NameFromRawTitle(dom)>> } } })

----------------------------------------------------------------------------
(* DataCleaner._extract_product_description *)

DescriptionClasses == <<<<"d", "e", "s", "c">>, <<"i", "n", "t", "r", "o">>, <<"a", "b", "o", "u", "t">>, <<"o", "v", "e", "r", "v", "i", "e", "w">>>>

\* len(text) > 50, len(text) > 100, len(description) > 500
DescElementMinLen == 50
DescParagraphMinLen == 100
DescMaxLen == 500

NL == <<"\n">>

\* mutant: the loop never breaks
RECURSIVE LongParagraphsNoStop(_, _, _)
LongParagraphsNoStop(dom, paragraphs, description) ==
    IF paragraphs = <<>> THEN description
    ELSE LET text == Strip(ElText(dom, Head(paragraphs)))
         IN IF Len(text) > DescParagraphMinLen
            THEN LongParagraphsNoStop(dom, Tail(paragraphs), description \o text \o NL)
            ELSE LongParagraphsNoStop(dom, Tail(paragraphs), description)
\* for p in paragraphs: ... break once len(description) > 500
RECURSIVE LongParagraphs(_, _, _)
LongParagraphs(dom, paragraphs, description) ==
    IF paragraphs = <<>> THEN description
    ELSE LET text == Strip(ElText(dom, Head(paragraphs)))
         IN IF Len(text) > DescParagraphMinLen
            THEN IF Len(description \o text \o NL) > DescMaxLen
                 THEN description \o text \o NL
                 ELSE LongParagraphs(dom, Tail(paragraphs), description \o text \o NL)
            ELSE LongParagraphs(dom, Tail(paragraphs), description)

ExtractProductDescription(dom) ==
    LET description_elements ==
            FindAllByClass(dom, {"p", "div"}, DescriptionClasses)
        description ==
            Concat([n \in 1..Len(description_elements) |->
                LET text == Strip(ElText(dom, description_elements[n]))
                IN IF Len(text) > DescElementMinLen THEN text \o NL ELSE <<>>])
    IN IF description # <<>> THEN Strip(description)
       ELSE Strip(LongParagraphs(dom, FindAll(dom, {"p"}), <<>>))

----------------------------------------------------------------------------
(* DataCleaner._extract_main_content *)

MainWords == <<<<"c", "o", "n", "t", "e", "n", "t">>, <<"m", "a", "i", "n">>, <<"a", "r", "t", "i", "c", "l", "e">>, <<"p", "r", "o", "d", "u", "c", "t">>>>

\* len(text) > 20
MainParagraphMinLen == 20

Bullet == <<"U2022", " ">>

ListTags == {"ul", "ol"}
HeadingTags == {"h1", "h2", "h3", "h4", "h5", "h6"}

\* the text of the paragraphs among `paragraphs` that are longer than 20
ParagraphsText(dom, paragraphs) ==
    Concat([n \in 1..Len(paragraphs) |->
        LET text == Strip(ElText(dom, paragraphs[n]))
        IN IF text # <<>> /\ Len(text) > MainParagraphMinLen
           THEN text \o NL \o NL ELSE <<>>])

\* the bulleted items of each list, each list followed by a newline
ListsText(dom, lists) ==
    Concat([n \in 1..Len(lists) |->
        LET items == FindAllIn(dom, lists[n], {"li"})
        IN Concat([m \in 1..Len(items) |->
               LET text == Strip(ElText(dom, items[m]))
               IN IF text # <<>> THEN Bullet \o text \o NL ELSE <<>>]) \o NL])

HeadingsText(dom, headings) ==
    Concat([n \in 1..Len(headings) |->
        LET text == Strip(ElText(dom, headings[n]))
        IN IF text # <<>> THEN text \o NL \o NL ELSE <<>>])

\* main_content before the final clean-up
MainContentText(dom) ==
    LET main_elements ==
            SelectSeq(FindAllByClass(dom, {"main", "article", "section", "div"}, MainWords),
                      LAMBDA i : IdHasAny(dom[i], MainWords))
        in_containers ==
            Concat([n \in 1..Len(main_elements) |->
                ParagraphsText(dom, FindAllIn(dom, main_elements[n], {"p"}))
                \o ListsText(dom, FindAllIn(dom, main_elements[n], ListTags))
                \o HeadingsText(dom, FindAllIn(dom, main_elements[n], HeadingTags))])
    IN IF in_containers # <<>> THEN in_containers
       ELSE ParagraphsText(dom, FindAll(dom, {"p"}))
            \o ListsText(dom, FindAll(dom, ListTags))

\* re.sub(r'\s+', ' ', main_content).strip(); the re.sub(r'\n\s*\n', ...)
\* that follows finds no newline left to replace
ExtractMainContent(dom) ==
    Only({ Strip(CollapseSpace(main_content)) :
             main_content \in {MainContentText(dom)} })

----------------------------------------------------------------------------
(* DataCleaner._extract_tech_specs: the elements it searches and the text   *)
(* it returns                                                               *)

spec_keywords ==
    <<<<"U6280", "U672F", "U53C2", "U6570">>, <<"U6280", "U672F", "U89C4", "U683C">>, <<"U4EA7", "U54C1", "U89C4", "U683C">>, <<"U89C4", "U683C", "U53C2", "U6570">>, <<"U6027", "U80FD", "U53C2", "U6570">>,
      <<"U4EA7", "U54C1", "U53C2", "U6570">>, <<"U53C2", "U6570", "U914D", "U7F6E">>, <<"U6280", "U672F", "U6307", "U6807">>, <<"U4EA7", "U54C1", "U7279", "U6027">>, <<"U529F", "U80FD", "U7279", "U70B9">>,
      <<"U8BE6", "U7EC6", "U53C2", "U6570">>, <<"U8BE6", "U7EC6", "U89C4", "U683C">>, <<"U4EA7", "U54C1", "U53C2", "U6570">>, <<"U57FA", "U672C", "U53C2", "U6570">>,
      <<"s", "p", "e", "c", "i", "f", "i", "c", "a", "t", "i", "o", "n", "s">>, <<"t", "e", "c", "h", "n", "i", "c", "a", "l", " ", "d", "a", "t", "a">>, <<"p", "a", "r", "a", "m", "e", "t", "e", "r", "s">>, <<"p", "e", "r", "f", "o", "r", "m", "a", "n", "c", "e">>,
      <<"t", "e", "c", "h", " ", "s", "p", "e", "c", "s">>, <<"t", "e", "c", "h", "n", "i", "c", "a", "l", " ", "s", "p", "e", "c", "i", "f", "i", "c", "a", "t", "i", "o", "n", "s">>, <<"p", "r", "o", "d", "u", "c", "t", " ", "s", "p", "e", "c", "i", "f", "i", "c", "a", "t", "i", "o", "n", "s">>,
      <<"s", "p", "e", "c", " ", "s", "h", "e", "e", "t">>>>

SpecClassWords == <<<<"s", "p", "e", "c">>, <<"p", "a", "r", "a", "m", "e", "t", "e", "r">>, <<"t", "e", "c", "h">>, <<"f", "e", "a", "t", "u", "r", "e">>>>

SpecItemClasses == <<<<"s", "p", "e", "c", "-", "i", "t", "e", "m">>, <<"p", "a", "r", "a", "m", "-", "i", "t", "e", "m">>, <<"f", "e", "a", "t", "u", "r", "e", "-", "i", "t", "e", "m">>>>

\* heading.find_next_sibling(): the next element with the same parent, 0 when
\* there is none
NextSibling(dom, i) ==
    First(SelectSeq(Elements(dom), LAMBDA j : j > i /\ dom[j].parent = dom[i].parent))

\* heading.find_next(['ul', 'ol']): the next list in document order
NextList(dom, i) ==
    First(SelectSeq(FindAll(dom, ListTags), LAMBDA j : j > i))

\* soup.find_all(['h1', 'h2', 'h3', 'h4', 'h5', 'h6'])
Headings(dom) == FindAll(dom, HeadingTags)

\* keyword.lower() in heading.text.lower()
HeadingHolds(dom, i, keyword) == Contains(Lower(ElText(dom, i)), Lower(keyword))

\* what one keyword adds to spec_containers: the elements whose id holds it,
\* those whose class holds it, and the next sibling of every heading whose
\* text holds it
ContainersFor(dom, keyword) ==
    LET by_id == SelectSeq(Elements(dom), LAMBDA i :
                     dom[i].id # <<>> /\ Contains(Lower(dom[i].id), Lower(keyword)))
        by_class == SelectSeq(Elements(dom), LAMBDA i :
                     dom[i].cls # <<>> /\ Contains(Lower(dom[i].cls), Lower(keyword)))
        headings == Headings(dom)
        by_heading ==
            Concat([n \in 1..Len(headings) |->
                IF HeadingHolds(dom, headings[n], keyword)
                   /\ NextSibling(dom, headings[n]) # 0
                THEN <<NextSibling(dom, headings[n])>> ELSE <<>>])
    IN by_id \o by_class \o by_heading

\* spec_containers, a list that can hold an element more than once
SpecContainers(dom) ==
    Concat([k \in 1..Len(spec_keywords) |-> ContainersFor(dom, spec_keywords[k])])

\* container.find_all(tags) of every container, container by container
InContainers(dom, containers, tags) ==
    Concat([n \in 1..Len(containers) |-> FindAllIn(dom, containers[n], tags)])

\* tables: those inside the containers, else every table
SpecTables(dom) ==
    LET inside == InContainers(dom, SpecContainers(dom), {"table"})
    IN IF inside # <<>> THEN inside ELSE FindAll(dom, {"table"})

\* dl_elements: those inside the containers, else every dl
SpecDls(dom) ==
    LET inside == InContainers(dom, SpecContainers(dom), {"dl"})
    IN IF inside # <<>> THEN inside ELSE FindAll(dom, {"dl"})

\* the list that follows each heading holding a keyword, keyword by keyword
ListsAfterHeadings(dom) ==
    Concat([k \in 1..Len(spec_keywords) |->
        LET headings == Headings(dom)
        IN Concat([n \in 1..Len(headings) |->
               IF HeadingHolds(dom, headings[n], spec_keywords[k])
                  /\ NextList(dom, headings[n]) # 0
               THEN <<NextList(dom, headings[n])>> ELSE <<>>])])

\* spec_lists: those inside the containers, else the lists with a spec class,
\* else the lists that follow a spec heading
SpecLists(dom) ==
    LET inside == InContainers(dom, SpecContainers(dom), ListTags)
        by_class == FindAllByClass(dom, ListTags, SpecClassWords)
    IN IF inside # <<>> THEN inside
       ELSE IF by_class # <<>> THEN by_class
       ELSE ListsAfterHeadings(dom)

\* spec_paragraphs: the p and div inside the containers, else those with a
\* spec class
SpecParagraphs(dom) ==
    LET inside == InContainers(dom, SpecContainers(dom), {"p", "div"})
    IN IF inside # <<>> THEN inside
       ELSE FindAllByClass(dom, {"p", "div"}, SpecClassWords)

SpecDivs(dom) ==
    FindAllByClass(dom, {"div"}, SpecItemClasses)

\* for e in elements: t = e.get_text(separator=sep, strip=True);
\*                    if t: tech_specs_text += t + end
TextOfEach(dom, elements, sep, end) ==
    Concat([n \in 1..Len(elements) |->
        LET t == ElGetText(dom, elements[n], sep)
        IN IF t # <<>> THEN t \o end ELSE <<>>])

\* re.sub(r'\n{3,}', '\n\n', s): the third and later newline of a run go
CollapseNewlines(s) ==
    LET keep == SelectSeq(Indices(Len(s)), LAMBDA i :
                    ~(i >= 3 /\ s[i] = "\n" /\ s[i - 1] = "\n" /\ s[i - 2] = "\n"))
    IN [n \in 1..Len(keep) |-> s[keep[n]]]

\* tech_specs_text before the final clean-up
TechSpecsText(dom) ==
       TextOfEach(dom, SpecContainers(dom), NL, NL \o NL)
    \o TextOfEach(dom, SpecTables(dom), NL, NL \o NL)
    \o TextOfEach(dom, SpecDls(dom), NL, NL \o NL)
    \o TextOfEach(dom, SpecLists(dom), NL, NL \o NL)
    \o TextOfEach(dom, SpecParagraphs(dom), <<>>, NL)
    \o TextOfEach(dom, SpecDivs(dom), NL, NL)

\* the return value of _extract_tech_specs
ExtractTechSpecs(dom) ==
    Only({ Strip(CollapseSpace(CollapseNewlines(tech_specs_text))) :
             tech_specs_text \in {TechSpecsText(dom)} })

----------------------------------------------------------------------------
(* DataCleaner._extract_tech_specs: the key/value pairs it stores in the    *)
(* module-level dict tech_specs (line 16).  A dict is the function from its *)
(* keys to their values; a pair is what one row, dt/dd, list item, line or  *)
(* spec-item div offers to the dict.                                        *)

Digits == {"0", "1", "2", "3", "4", "5", "6", "7", "8", "9"}

\* the colons of [：:]
Colons == {":", "UFF1A"}

\* the characters of [：:*]
KeySuffixes == {":", "UFF1A", "*"}

\* len(key) < 100
KeyMaxLen == 100

\* str.isdigit()
IsDigit(s) == s # <<>> /\ \A i \in 1..Len(s) : s[i] \in Digits

\* re.sub(r'[：:*]\s*$', '', key): the last character that is not whitespace
\* goes, with the whitespace after it, when it is a colon or an asterisk
StripKeySuffix(key) ==
    LET last == First(SelectSeq(Indices(Len(key)), LAMBDA i :
                    ~IsSpace(key[i]) /\ \A j \in (i + 1)..Len(key) : IsSpace(key[j])))
    IN IF last # 0 /\ key[last] \in KeySuffixes THEN SubSeq(key, 1, last - 1) ELSE key

Pair(key, value) == [key |-> key, value |-> value]

\* mutant: a key that is already stored keeps its value
SetItemFirstWins(d, key, value) ==
    [k \in DOMAIN d \cup {key} |-> IF k \in DOMAIN d THEN d[k] ELSE value]

\* tech_specs[key] = value
SetItem(d, key, value) ==
    [k \in DOMAIN d \cup {key} |-> IF k = key THEN value ELSE d[k]]

\* if key and value and len(key) < 100 and not key.isdigit()
Accepted(pair) ==
    /\ pair.key # <<>>
    /\ pair.value # <<>>
    /\ Len(pair.key) < KeyMaxLen
    /\ ~IsDigit(pair.key)

\* the guarded assignment: the key is tested as found and stored stripped
Store(d, pair) ==
    IF Accepted(pair) THEN SetItem(d, StripKeySuffix(pair.key), pair.value) ELSE d

\* the assignments of one strategy, in the order of its loop
RECURSIVE StoreAll(_, _)
StoreAll(d, pairs) ==
    IF pairs = <<>> THEN d ELSE StoreAll(Store(d, Head(pairs)), Tail(pairs))

\* is_spec_table = any(keyword.lower() in table.text.lower() ...)
IsSpecTable(dom, table) ==
    \E k \in DOMAIN spec_keywords :
        Contains(Lower(ElText(dom, table)), Lower(spec_keywords[k]))

\* any(container in spec_containers for container in table.parents)
InSpecContainer(dom, table) ==
    \E j \in 1..(table - 1) :
        /\ InSubtree(dom, j, table)
        /\ \E n \in DOMAIN SpecContainers(dom) : SpecContainers(dom)[n] = j

\* cells = row.find_all(['td', 'th'])
Cells(dom, row) == FindAllIn(dom, row, {"td", "th"})

\* re.sub(r'\s+', ' ', cell.text.strip())
CellText(dom, cell) == CollapseSpace(Strip(ElText(dom, cell)))

\* row.find_parent('thead') or all(cell.name == 'th' for cell in cells)
IsHeaderRow(dom, row) ==
    \/ \E j \in 1..(row - 1) : dom[j].tag = "thead" /\ InSubtree(dom, j, row)
    \/ \A n \in DOMAIN Cells(dom, row) : dom[Cells(dom, row)[n]].tag = "th"

\* the first other row of the table that holds a th, 0 when there is none
HeaderRow(dom, table, row) ==
    First(SelectSeq(FindAllIn(dom, table, {"tr"}), LAMBDA r :
              r # row /\ FindAllIn(dom, r, {"th"}) # <<>>))

\* the branch for a row of more than two cells: header cell i with cell i,
\* when the row is no header row, a header row exists and has as many cells;
\* a pair whose key equals its value is left out
HeaderPairs(dom, table, row) ==
    LET cells == Cells(dom, row)
        header_row == HeaderRow(dom, table, row)
        header_cells == FindAllIn(dom, header_row, {"th", "td"})
    IN IF IsHeaderRow(dom, row) \/ header_row = 0 \/ Len(header_cells) # Len(cells)
       THEN <<>>
       ELSE Concat([i \in 1..Len(cells) |->
                LET key == Strip(ElText(dom, header_cells[i]))
                    value == Strip(ElText(dom, cells[i]))
                IN IF key # value THEN <<Pair(key, value)>> ELSE <<>>])

\* if len(cells) >= 2: ... elif len(cells) > 2: ...
RowPairs(dom, table, row) ==
    IF Len(Cells(dom, row)) >= 2
    THEN <<Pair(CellText(dom, Cells(dom, row)[1]), CellText(dom, Cells(dom, row)[2]))>>
    ELSE IF Len(Cells(dom, row)) > 2 THEN HeaderPairs(dom, table, row)
    ELSE <<>>

\* 2. the rows of every table that holds a keyword or lies in a container
TablePairs(dom) ==
    LET tables == SelectSeq(SpecTables(dom), LAMBDA table :
                      IsSpecTable(dom, table) \/ InSpecContainer(dom, table))
    IN Concat([t \in 1..Len(tables) |->
           LET rows == FindAllIn(dom, tables[t], {"tr"})
           IN Concat([r \in 1..Len(rows) |-> RowPairs(dom, tables[t], rows[r])])])

\* 3. dt i with dd i of every dl that has as many dt as dd
DlPairs(dom) ==
    LET dl_elements == SpecDls(dom)
    IN Concat([n \in 1..Len(dl_elements) |->
           LET dt_elements == FindAllIn(dom, dl_elements[n], {"dt"})
               dd_elements == FindAllIn(dom, dl_elements[n], {"dd"})
           IN IF Len(dt_elements) # Len(dd_elements) THEN <<>>
              ELSE [i \in 1..Len(dt_elements) |->
                       Pair(Strip(ElText(dom, dt_elements[i])),
                            Strip(ElText(dom, dd_elements[i])))]])

\* re.search(r'([^:：]+)[：:](.*)', text): group 1 is the first run of
\* characters that are no colon, which a colon must follow, and group 2 the
\* rest of that line; <<>> when there is no match
ItemMatch(text) ==
    LET i == First(SelectSeq(Indices(Len(text)), LAMBDA n : text[n] \notin Colons))
        j == First(SelectSeq(Indices(Len(text)), LAMBDA n : n > i /\ text[n] \in Colons))
        e == Head(SelectSeq(Indices(Len(text)), LAMBDA n : n > j /\ text[n] = "\n")
                  \o <<Len(text) + 1>>)
    IN IF i = 0 \/ j = 0 THEN <<>>
       ELSE <<Pair(Strip(SubSeq(text, i, j - 1)), Strip(SubSeq(text, j + 1, e - 1)))>>

\* 4. the items of every spec list that hold "key: value"
ListPairs(dom) ==
    LET spec_lists == SpecLists(dom)
    IN Concat([n \in 1..Len(spec_lists) |->
           LET list_items == FindAllIn(dom, spec_lists[n], {"li"})
           IN Concat([m \in 1..Len(list_items) |->
                  ItemMatch(Strip(ElText(dom, list_items[m])))])])

\* re.search(r'([^:：]+)[：:\s]*([^\n]+)', line) for a line without newline:
\* group 1 is the first run of characters that are no colon.  When a colon
\* follows it, group 2 is what follows the colons and whitespace after the
\* run, or the last character of the line when nothing follows them.  When
\* the run ends the line, group 1 gives up its last character to group 2.
LineMatch(line) ==
    LET i == First(SelectSeq(Indices(Len(line)), LAMBDA n : line[n] \notin Colons))
        j == First(SelectSeq(Indices(Len(line)), LAMBDA n : n > i /\ line[n] \in Colons))
        k == First(SelectSeq(Indices(Len(line)), LAMBDA n :
                 n > j /\ line[n] \notin Colons /\ ~IsSpace(line[n])))
    IN IF i = 0 THEN <<>>
       ELSE IF j = 0
       THEN IF Len(line) - i + 1 >= 2
            THEN <<Pair(Strip(SubSeq(line, i, Len(line) - 1)), Strip(<<line[Len(line)]>>))>>
            ELSE <<>>
       ELSE IF k = 0
       THEN <<Pair(Strip(SubSeq(line, i, j - 1)), Strip(<<line[Len(line)]>>))>>
       ELSE <<Pair(Strip(SubSeq(line, i, j - 1)), Strip(SubSeq(line, k, Len(line))))>>

\* 5. the lines of every spec paragraph
ParagraphPairs(dom) ==
    LET spec_paragraphs == SpecParagraphs(dom)
    IN Concat([n \in 1..Len(spec_paragraphs) |->
           LET lines == Split(Strip(ElText(dom, spec_paragraphs[n])), "\n")
           IN Concat([m \in 1..Len(lines) |-> LineMatch(lines[m])])])

KeyClassWords == <<<<"n", "a", "m", "e">>, <<"k", "e", "y">>, <<"l", "a", "b", "e", "l">>, <<"t", "i", "t", "l", "e">>>>
ValueClassWords == <<<<"v", "a", "l", "u", "e">>, <<"d", "a", "t", "a">>, <<"c", "o", "n", "t", "e", "n", "t">>>>

\* div.find(class_=lambda c: c and any(word in ... for word in words)): the
\* first such descendant, 0 when there is none
FindInByClass(dom, i, words) ==
    First(SelectSeq(Descendants(dom, i), LAMBDA j : ClassHasAny(dom[j], words)))

\* 6. the key element and the value element of every spec-item div
DivPairs(dom) ==
    LET spec_divs == SpecDivs(dom)
    IN Concat([n \in 1..Len(spec_divs) |->
           LET key_element == FindInByClass(dom, spec_divs[n], KeyClassWords)
               value_element == FindInByClass(dom, spec_divs[n], ValueClassWords)
           IN IF key_element # 0 /\ value_element # 0
              THEN <<Pair(Strip(ElText(dom, key_element)), Strip(ElText(dom, value_element)))>>
              ELSE <<>>])

----------------------------------------------------------------------------
(* DataCleaner._clean_page_content and DataCleaner.clean *)

\* Python's None
None == [none |-> TRUE]

\* a site of which nothing is known
Anything == [any |-> TRUE]

\* mutant: the test forgets the main content
NothingExtractedButContent(product_name, product_description, tech_specs_text, main_content) ==
    /\ product_name = <<>>
    /\ product_description = <<>>
    /\ tech_specs_text = <<>>

\* if not product_name and not product_description and not tech_specs
\*    and not main_content
NothingExtracted(product_name, product_description, tech_specs_text, main_content) ==
    /\ product_name = <<>>
    /\ product_description = <<>>
    /\ tech_specs_text = <<>>
    /\ main_content = <<>>

\* a page of raw_data always holds 'html' (crawler.py lines 84-89), and the
\* text returned by _extract_tech_specs is a str, so tech_specs_text is it
CleanedPage(page, soup) ==
    LET product_name == ExtractProductName(soup, page.url)
        product_description == ExtractProductDescription(soup)
        tech_specs_text == ExtractTechSpecs(soup)
        main_content == ExtractMainContent(soup)
    IN IF NothingExtracted(product_name, product_description, tech_specs_text, main_content)
       THEN None
       ELSE [url |-> page.url,
             company |-> page.company,
             product_name |-> product_name,
             description |-> product_description,
             tech_specs |-> tech_specs_text,
             content |-> main_content]

\* soup is the parsed document after _remove_irrelevant_elements(soup)
CleanPageContent(page) ==
    Only({ CleanedPage(page, soup) : soup \in {RemoveIrrelevantElements(page.html)} })

----------------------------------------------------------------------------
(* The pages given to DataCleaner.clean.  A page is the page_data the       *)
(* crawler builds: html is the parsed document, content its text, and conf  *)
(* the confidence, in hundredths, the classification model returns for it.  *)

Rep(c, n) == [i \in 1..n |-> c]

Plain(tag, text, parent) == El(tag, <<>>, <<>>, text, parent)

DocEmpty == <<>>
DocShort == <<Plain("p", <<"s", "h", "o", "r", "t", " ", "t", "e", "x", "t">>, 0)>>
DocPara == <<Plain("p", Rep("x", 30), 0)>>
DocLongPara == <<Plain("p", <<"W", "e", "i", "g", "h", "t", " ">> \o Rep("x", 100), 0)>>
DocTitle == <<Plain("title", <<"M", "a", "v", "i", "c", " ", "3", " ", "|", " ", "D", "J", "I">>, 0)>>
DocTitleSuffix == <<Plain("title", <<"-", " ", "U5B98", "U7F51">>, 0)>>
DocNav == <<Plain("nav", <<>>, 0), Plain("p", Rep("x", 30), 1)>>
DocAdClass == <<El("div", <<"d", "o", "w", "n", "l", "o", "a", "d">>, <<>>, <<>>, 0), Plain("p", Rep("x", 30), 1)>>
DocEmptyList == <<El("div", <<"m", "a", "i", "n">>, <<"c", "o", "n", "t", "e", "n", "t">>, <<>>, 0), Plain("ul", <<>>, 1)>>
DocTable ==
    <<Plain("table", <<>>, 0), Plain("tr", <<>>, 1),
      Plain("td", <<"R", "a", "n", "g", "e">>, 2), Plain("td", <<"1", "0", " ", "k", "m">>, 2)>>
DocMeta ==
    <<Meta(<<"o", "g", ":", "t", "i", "t", "l", "e">>, <<>>, <<"P", "h", "a", "n", "t", "o", "m", " ", "X">>),
      Plain("title", <<"P", "h", "a", "n", "t", "o", "m", " ", "X", " ", "|", " ", "O", "f", "f", "i", "c", "i", "a", "l", " ", "S", "t", "o", "r", "e">>, 0)>>
DocSpecHeading ==
    <<Plain("h2", <<"S", "p", "e", "c", "i", "f", "i", "c", "a", "t", "i", "o", "n", "s">>, 0), Plain("ul", <<>>, 0),
      Plain("li", <<"R", "a", "n", "g", "e", ":", " ", "1", "0", " ", "k", "m">>, 2)>>
DocDesc == <<El("div", <<"i", "n", "t", "r", "o">>, <<>>, Rep("y", 51), 0)>>
DocH1 == <<Plain("h1", <<"M", "i", "n", "i", " ", "4", " ", "P", "r", "o">>, 0)>>

Docs ==
    { DocEmpty, DocShort, DocPara, DocLongPara, DocTitle, DocTitleSuffix, DocNav,
      DocAdClass, DocEmptyList, DocTable, DocMeta, DocSpecHeading, DocDesc, DocH1 }

UrlTech == <<"h", "t", "t", "p", ":", "/", "/", "a", ".", "c", "o", "/", "t", "e", "c", "h", "/", "m", "3">>
UrlAbout == <<"h", "t", "t", "p", ":", "/", "/", "a", ".", "c", "o", "/", "a", "b", "o", "u", "t">>
UrlDrone == <<"h", "t", "t", "p", ":", "/", "/", "a", ".", "c", "o", "/", "D", "r", "o", "n", "e", "/", "x", "1">>

\* the confidences around the two thresholds
Confidences == {20, 21, 30, 31}

\* page_data of crawler.py lines 84-89, with the model's confidence for it
PageOf(url, html, conf) ==
    [url |-> url, company |-> "DJI", html |-> html,
     content |-> SoupGetText(html), conf |-> conf]

Pages ==
    { PageOf(u, d, c) : u \in {UrlTech, UrlAbout, UrlDrone},
                        d \in {DocPara, DocLongPara}, c \in Confidences }
    \cup { PageOf(UrlTech, d, 31) : d \in Docs }
    \cup { PageOf(UrlDrone, DocEmpty, 31) }

\* The pure functions of a page, tabulated over the modelled pages
IsProductPageOf == [page \in Pages |-> IsProductPage(page)]
CleanPageContentOf == [page \in Pages |-> CleanPageContent(page)]

\* _filter_product_pages
FilterProductPages(pages) == SelectSeq(pages, LAMBDA page : IsProductPageOf[page])

\* the loop of clean: cleaned_page = self._clean_page_content(page);
\* if cleaned_page: cleaned_pages.append(cleaned_page)
RECURSIVE CleanEach(_)
CleanEach(pages) ==
    IF pages = <<>> THEN <<>>
    ELSE LET cleaned_page == CleanPageContentOf[Head(pages)]
         IN (IF cleaned_page # None THEN <<cleaned_page>> ELSE <<>>)
                \o CleanEach(Tail(pages))

InitClean ==
    /\ raw_data \in SeqsUpTo(Pages, MaxRawPages)
    /\ product_pages = <<>>
    /\ cleaned_pages = <<>>
    /\ cstage = "start"

\* DataCleaner.clean(raw_data)
Clean ==
    /\ cstage = "start"
    /\ product_pages' = FilterProductPages(raw_data)
    /\ cleaned_pages' = CleanEach(FilterProductPages(raw_data))
    /\ cstage' = "done"
    /\ UNCHANGED raw_data
    /\ UNCHANGED restOfClean

NextClean == Clean

----------------------------------------------------------------------------
(* DataCleaner._clean_page_content statement by statement, called for one   *)
(* page after the other as the loop of clean does.  The dict tech_specs is  *)
(* module-level: it is created empty when the module is loaded and no call  *)
(* resets it.                                                               *)

\* more documents: names
DocMetaTitle ==
    <<Meta(<<"o", "g", ":", "t", "i", "t", "l", "e">>, <<>>, <<"P", "h", "a", "n", "t", "o", "m", " ", "X">>), Plain("title", <<"M", "a", "v", "i", "c", " ", "3", " ", "|", " ", "D", "J", "I">>, 0)>>
DocMetaSuffix ==
    <<Meta(<<"o", "g", ":", "t", "i", "t", "l", "e">>, <<>>, <<"P", "h", "a", "n", "t", "o", "m", " ", " ", "X", " ", "-", " ", "U5B98", "U7F51">>), Plain("title", <<"M", "a", "v", "i", "c", " ", "3", " ", "|", " ", "D", "J", "I">>, 0)>>
DocMetaShort ==
    <<Meta(<<"o", "g", ":", "t", "i", "t", "l", "e">>, <<>>, <<"X", "5">>), Plain("title", <<"M", "a", "v", "i", "c", " ", "3", " ", "|", " ", "D", "J", "I">>, 0)>>
DocMetaName ==
    <<Meta(<<>>, <<"t", "w", "i", "t", "t", "e", "r", ":", "t", "i", "t", "l", "e">>, <<"I", "n", "s", "p", "i", "r", "e", " ", "3">>), Plain("h1", <<"M", "i", "n", "i", " ", "4", " ", "P", "r", "o">>, 0)>>
DocSelector ==
    <<Plain("title", <<"M", "a", "v", "i", "c", " ", "3", " ", "|", " ", "D", "J", "I">>, 0), Plain("h1", <<"M", "i", "n", "i", " ", "4", " ", "P", "r", "o">>, 0),
      El("span", <<"P", "r", "o", "d", "u", "c", "t", "T", "i", "t", "l", "e", " ", "b", "i", "g">>, <<>>, <<"A", "i", "r", " ", "2", "S", " ", "P", "r", "o">>, 0)>>
DocTitleH1 ==
    <<Plain("title", <<"M", "a", "v", "i", "c", " ", "3", " ", "|", " ", "D", "J", "I">>, 0), Plain("h1", <<"M", "i", "n", "i", " ", "4", " ", "P", "r", "o">>, 0)>>
DocShortTitle == <<Plain("title", <<"M", "3">>, 0)>>
DocTwoH1 ==
    <<Plain("h1", <<"W", "e", "l", "c", "o", "m", "e">>, 0), Plain("h1", <<"B", "e", "s", "t", " ", "D", "r", "o", "n", "e", " ", "2", "0", "2", "4">>, 0)>>

\* more documents: descriptions
DocThreeParas ==
    <<Plain("p", Rep("a", 40), 0), Plain("p", Rep("b", 60), 0), Plain("p", Rep("c", 120), 0)>>
DocManyParas ==
    <<Plain("p", Rep("a", 150), 0), Plain("p", Rep("b", 150), 0), Plain("p", Rep("c", 150), 0),
      Plain("p", Rep("d", 150), 0), Plain("p", Rep("e", 150), 0)>>
DocParaEdge == <<Plain("p", Rep("a", 100), 0), Plain("p", Rep("b", 101), 0)>>
DocDescAndPara ==
    <<El("div", <<"i", "n", "t", "r", "o">>, <<>>, Rep("y", 51), 0), Plain("p", Rep("c", 120), 0)>>
DocShortDescPara ==
    <<El("div", <<"i", "n", "t", "r", "o">>, <<>>, Rep("y", 50), 0), Plain("p", Rep("c", 120), 0)>>
DocClassPara ==
    <<Plain("p", Rep("c", 120), 0), El("p", <<"D", "e", "s", "c", "r", "i", "p", "t", "i", "o", "n">>, <<>>, Rep("d", 60), 0)>>

\* more documents: elements the sanitizer removes, nested in one another
DocNested ==
    <<El("div", <<"t", "o", "p", "-", "b", "a", "n", "n", "e", "r">>, <<>>, <<>>, 0),
      Plain("nav", <<>>, 1),
      Plain("script", <<"v", "a", "r", " ", "x">>, 2),
      Plain("p", <<"k", "e", "p", "t", " ", "t", "e", "x", "t", " ", "o", "f", " ", "t", "h", "e", " ", "p", "a", "g", "e">>, 0),
      Plain("footer", <<>>, 0),
      El("div", <<"s", "h", "a", "r", "e">>, <<>>, <<"S", "h", "a", "r", "e">>, 5),
      El("div", <<"b", "o", "x">>, <<>>, <<>>, 0),
      El("span", <<"c", "o", "m", "m", "e", "n", "t", "s">>, <<>>, <<"c">>, 7),
      El("p", <<"d", "i", "s", "c", "u", "s", "s", "-", "i", "t", "e", "m">>, <<>>, <<"d">>, 8),
      Plain("p", <<"t", "a", "i", "l">>, 7)>>
DocUpperAd ==
    <<El("div", <<"A", "D", "-", "B", "o", "x">>, <<>>, <<>>, 0), Plain("p", Rep("x", 30), 1),
      Plain("p", Rep("z", 30), 0)>>
DocScriptInP ==
    <<Plain("p", <<"I", "n", "t", "r", "o", " ">>, 0), Plain("script", <<"c", "o", "d", "e">>, 1),
      Plain("header", <<>>, 0), El("div", <<"f", "o", "l", "l", "o", "w", "-", "u", "s">>, <<>>, <<"f">>, 3),
      Plain("noscript", <<"n">>, 0), Plain("iframe", <<>>, 0), Plain("style", <<"s">>, 0)>>

\* more documents: tech specs
DocTableKw ==
    <<Plain("table", <<>>, 0), Plain("caption", <<"U6280", "U672F", "U53C2", "U6570">>, 1),
      Plain("tr", <<>>, 1), Plain("td", <<"U7535", "U6C60">>, 3), Plain("td", <<"3", "2", "0", "0", "m", "A", "h">>, 3),
      Plain("tr", <<>>, 1), Plain("td", <<"U91CD", "U91CF">>, 6), Plain("td", <<"2", "4", "9", "g">>, 6)>>
DocTableRange ==
    <<Plain("table", <<>>, 0), Plain("caption", <<"S", "p", "e", "c", "i", "f", "i", "c", "a", "t", "i", "o", "n", "s">>, 1),
      Plain("tr", <<>>, 1), Plain("td", <<"R", "a", "n", "g", "e">>, 3), Plain("td", <<"1", "0", " ", "k", "m">>, 3)>>
DocTableKeys ==
    <<Plain("table", <<>>, 0), Plain("caption", <<"S", "p", "e", "c", "i", "f", "i", "c", "a", "t", "i", "o", "n", "s">>, 1),
      Plain("tr", <<>>, 1), Plain("td", <<"2", "0", "2", "4", ":">>, 3), Plain("td", <<"m", "o", "d", "e", "l", " ", "y", "e", "a", "r">>, 3),
      Plain("tr", <<>>, 1), Plain("td", <<"*">>, 6), Plain("td", <<"o", "p", "t", "i", "o", "n", "a", "l">>, 6),
      Plain("tr", <<>>, 1), Plain("td", <<"1", "2", "3">>, 9), Plain("td", <<"a", " ", "n", "u", "m", "b", "e", "r">>, 9),
      Plain("tr", <<>>, 1), Plain("td", Rep("k", 100), 12), Plain("td", <<"l", "o", "n", "g">>, 12),
      Plain("tr", <<>>, 1), Plain("td", <<" ", "M", "a", "x", " ", "\n", " ", "S", "p", "e", "e", "d", " ", ":", " ">>, 15), Plain("td", <<"2", "0", " ", " ", "m", "/", "s">>, 15)>>
DocTableWide ==
    <<Plain("table", <<>>, 0), Plain("caption", <<"S", "p", "e", "c", "i", "f", "i", "c", "a", "t", "i", "o", "n", "s">>, 1),
      Plain("tr", <<>>, 1), Plain("th", <<"M", "o", "d", "e", "l">>, 3), Plain("th", <<"R", "a", "n", "g", "e">>, 3),
      Plain("th", <<"W", "e", "i", "g", "h", "t">>, 3),
      Plain("tr", <<>>, 1), Plain("td", <<"X", "1">>, 7), Plain("td", <<"1", "0", " ", "k", "m">>, 7),
      Plain("td", <<"2", " ", "k", "g">>, 7)>>
DocTableList ==
    <<Plain("table", <<>>, 0), Plain("caption", <<"P", "a", "r", "a", "m", "e", "t", "e", "r", "s">>, 1),
      Plain("tr", <<>>, 1), Plain("td", <<"R", "a", "n", "g", "e">>, 3), Plain("td", <<"1", "0", " ", "k", "m">>, 3),
      El("ul", <<"s", "p", "e", "c", "-", "l", "i", "s", "t">>, <<>>, <<>>, 0), Plain("li", <<"R", "a", "n", "g", "e", ":", " ", "1", "2", " ", "k", "m">>, 6),
      Plain("li", <<"n", "o", " ", "s", "e", "p", "a", "r", "a", "t", "o", "r", " ", "h", "e", "r", "e">>, 6)>>
DocAllStrategies ==
    <<El("div", <<>>, <<"s", "p", "e", "c", "i", "f", "i", "c", "a", "t", "i", "o", "n", "s">>, <<>>, 0),
      Plain("table", <<>>, 1), Plain("tr", <<>>, 2),
      Plain("td", <<"R", "a", "n", "g", "e">>, 3), Plain("td", <<"1", " ", "k", "m">>, 3),
      Plain("dl", <<>>, 1), Plain("dt", <<"R", "a", "n", "g", "e">>, 6), Plain("dd", <<"2", " ", "k", "m">>, 6),
      Plain("ul", <<>>, 1), Plain("li", <<"R", "a", "n", "g", "e", ":", " ", "3", " ", "k", "m">>, 9),
      Plain("p", <<"R", "a", "n", "g", "e", ":", " ", "4", " ", "k", "m">>, 1),
      El("div", <<"s", "p", "e", "c", "-", "i", "t", "e", "m">>, <<>>, <<>>, 1),
      El("span", <<"l", "a", "b", "e", "l">>, <<>>, <<"R", "a", "n", "g", "e">>, 12), El("span", <<"v", "a", "l", "u", "e">>, <<>>, <<"5", " ", "k", "m">>, 12)>>
DocDl ==
    <<Plain("dl", <<>>, 0), Plain("dt", <<"B", "a", "t", "t", "e", "r", "y">>, 1), Plain("dd", <<"3", "2", "0", "0", "m", "A", "h">>, 1),
      Plain("dt", <<"W", "e", "i", "g", "h", "t", "UFF1A">>, 1), Plain("dd", <<"2", "4", "9", "g">>, 1),
      Plain("dl", <<>>, 0), Plain("dt", <<"O", "d", "d">>, 6)>>
DocSpecPara ==
    <<El("p", <<"t", "e", "c", "h", "-", "d", "a", "t", "a">>, <<>>, <<"M", "a", "x", " ", "S", "p", "e", "e", "d", ":", " ", "2", "0", " ", "m", "/", "s", "\n", "P", "r", "i", "c", "e", " ", "9", "9", "\n", "7", ":", " ", "s", "e", "v", "e", "n">>, 0)>>
DocSpecItem ==
    <<El("div", <<"p", "a", "r", "a", "m", "-", "i", "t", "e", "m">>, <<>>, <<>>, 0),
      El("span", <<"n", "a", "m", "e">>, <<>>, <<"R", "a", "n", "g", "e", ":">>, 1), El("span", <<"d", "a", "t", "a">>, <<>>, <<"9", " ", "k", "m">>, 1),
      El("div", <<"s", "p", "e", "c", "-", "i", "t", "e", "m">>, <<>>, <<>>, 0), El("span", <<"k", "e", "y">>, <<>>, <<"L", "o", "n", "e", "l", "y">>, 4)>>

NameDocs ==
    { DocMetaTitle, DocMetaSuffix, DocMetaShort, DocMetaName, DocSelector, DocTitleH1,
      DocShortTitle, DocTwoH1 }

DescriptionDocs ==
    { DocThreeParas, DocManyParas, DocParaEdge, DocDescAndPara, DocShortDescPara,
      DocClassPara }

SanitizerDocs == { DocNested, DocUpperAd, DocScriptInP }

TechSpecDocs ==
    { DocTable, DocSpecHeading, DocTableKw, DocTableRange, DocTableKeys, DocTableWide,
      DocTableList, DocAllStrategies, DocDl, DocSpecPara, DocSpecItem }

\* the pages of the runs of one call
CallPages ==
    { PageOf(u, d, 31) :
        u \in {UrlTech, UrlDrone},
        d \in Docs \cup NameDocs \cup DescriptionDocs \cup SanitizerDocs \cup TechSpecDocs }

\* the pages of the runs of several calls
TechSpecPages == { PageOf(UrlTech, d, 31) : d \in TechSpecDocs }

\* the locals of a call: page, soup, product_name, product_description,
\* tech_specs (the text _extract_tech_specs returned) and main_content
NoFrame ==
    [page |-> None, soup |-> <<>>, product_name |-> <<>>, product_description |-> <<>>,
     tech_specs |-> <<>>, main_content |-> <<>>]

\* mutant: every strategy runs, whatever the earlier ones found
NotFoundAlways(product_name) == TRUE

\* if not product_name
NotFound(product_name) == product_name = <<>>

\* the module is loaded and clean is about to loop over `pages`
InitExtract(pages) ==
    /\ pages_left = pages
    /\ frame = NoFrame
    /\ step = "idle"
    /\ tech_specs = <<>>
    /\ emitted = <<>>

\* for page in product_pages: cleaned_page = self._clean_page_content(page)
\* up to soup = BeautifulSoup(html_content, 'html.parser')
StepCall ==
    /\ step = "idle"
    /\ pages_left # <<>>
    /\ frame' = [NoFrame EXCEPT !.page = Head(pages_left), !.soup = Head(pages_left).html]
    /\ pages_left' = Tail(pages_left)
    /\ step' = "sanitize"
    /\ UNCHANGED <<tech_specs, emitted>>
    /\ UNCHANGED restOfExtract

\* self._remove_irrelevant_elements(soup)
StepSanitize ==
    /\ step = "sanitize"
    /\ frame' = [frame EXCEPT !.soup = RemoveIrrelevantElements(@)]
    /\ step' = "name_meta"
    /\ UNCHANGED <<pages_left, tech_specs, emitted>>
    /\ UNCHANGED restOfExtract

\* product_name = None; 1. the meta tags
StepNameMeta ==
    /\ step = "name_meta"
    /\ frame' = [frame EXCEPT !.product_name = NameFromMeta(frame.soup)]
    /\ step' = "name_selectors"
    /\ UNCHANGED <<pages_left, tech_specs, emitted>>
    /\ UNCHANGED restOfExtract

\* 2. if not product_name: the product-name selectors
StepNameSelectors ==
    /\ step = "name_selectors"
    /\ frame' = [frame EXCEPT !.product_name =
                    IF NotFound(@) THEN NameFromSelectors(frame.soup) ELSE @]
    /\ step' = "name_title"
    /\ UNCHANGED <<pages_left, tech_specs, emitted>>
    /\ UNCHANGED restOfExtract

\* 3. if not product_name and soup.title: the title cut at a separator
StepNameTitle ==
    /\ step = "name_title"
    /\ frame' = [frame EXCEPT !.product_name =
                    IF NotFound(@) THEN NameFromTitle(frame.soup) ELSE @]
    /\ step' = "name_h1"
    /\ UNCHANGED <<pages_left, tech_specs, emitted>>
    /\ UNCHANGED restOfExtract

\* 4. if not product_name: the h1 tags
StepNameH1 ==
    /\ step = "name_h1"
    /\ frame' = [frame EXCEPT !.product_name =
                    IF NotFound(@) THEN NameFromH1(frame.soup) ELSE @]
    /\ step' = "name_url"
    /\ UNCHANGED <<pages_left, tech_specs, emitted>>
    /\ UNCHANGED restOfExtract

\* 5. if not product_name: the parts of the URL
StepNameUrl ==
    /\ step = "name_url"
    /\ frame' = [frame EXCEPT !.product_name =
                    IF NotFound(@) THEN NameFromUrl(frame.page.url) ELSE @]
    /\ step' = "name_raw_title"
    /\ UNCHANGED <<pages_left, tech_specs, emitted>>
    /\ UNCHANGED restOfExtract

\* if not product_name and soup.title: the raw title
StepNameRawTitle ==
    /\ step = "name_raw_title"
    /\ frame' = [frame EXCEPT !.product_name =
                    IF NotFound(@) THEN NameFromRawTitle(frame.soup) ELSE @]
    /\ step' = "name_cleanup"
    /\ UNCHANGED <<pages_left, tech_specs, emitted>>
    /\ UNCHANGED restOfExtract

\* if product_name: the two re.sub; return product_name if product_name else ''
StepNameCleanup ==
    /\ step = "name_cleanup"
    /\ frame' = [frame EXCEPT !.product_name = CleanName(@)]
    /\ step' = "description"
    /\ UNCHANGED <<pages_left, tech_specs, emitted>>
    /\ UNCHANGED restOfExtract

\* product_description = self._extract_product_description(soup)
StepDescription ==
    /\ step = "description"
    /\ frame' = [frame EXCEPT !.product_description = ExtractProductDescription(frame.soup)]
    /\ step' = "spec_tables"
    /\ UNCHANGED <<pages_left, tech_specs, emitted>>
    /\ UNCHANGED restOfExtract

\* _extract_tech_specs, 2: the loop over the tables
StepTables ==
    /\ step = "spec_tables"
    /\ tech_specs' = StoreAll(tech_specs, TablePairs(frame.soup))
    /\ step' = "spec_dls"
    /\ UNCHANGED <<pages_left, frame, emitted>>
    /\ UNCHANGED restOfExtract

\* _extract_tech_specs, 3: the loop over the definition lists
StepDls ==
    /\ step = "spec_dls"
    /\ tech_specs' = StoreAll(tech_specs, DlPairs(frame.soup))
    /\ step' = "spec_lists"
    /\ UNCHANGED <<pages_left, frame, emitted>>
    /\ UNCHANGED restOfExtract

\* _extract_tech_specs, 4: the loop over the lists
StepLists ==
    /\ step = "spec_lists"
    /\ tech_specs' = StoreAll(tech_specs, ListPairs(frame.soup))
    /\ step' = "spec_paragraphs"
    /\ UNCHANGED <<pages_left, frame, emitted>>
    /\ UNCHANGED restOfExtract

\* _extract_tech_specs, 5: the loop over the paragraphs and divs
StepParagraphs ==
    /\ step = "spec_paragraphs"
    /\ tech_specs' = StoreAll(tech_specs, ParagraphPairs(frame.soup))
    /\ step' = "spec_divs"
    /\ UNCHANGED <<pages_left, frame, emitted>>
    /\ UNCHANGED restOfExtract

\* _extract_tech_specs, 6: the loop over the spec-item divs
StepDivs ==
    /\ step = "spec_divs"
    /\ tech_specs' = StoreAll(tech_specs, DivPairs(frame.soup))
    /\ step' = "spec_text"
    /\ UNCHANGED <<pages_left, frame, emitted>>
    /\ UNCHANGED restOfExtract

\* '\n'.join([f"{k}: {v}" for k, v in tech_specs.items()]) of the mapping
RECURSIVE MappingText(_)
MappingText(d) ==
    IF DOMAIN d = {} THEN <<>>
    ELSE LET k == CHOOSE key \in DOMAIN d : TRUE
             rest == [key \in DOMAIN d \ {k} |-> d[key]]
         IN k \o <<":", " ">> \o d[k] \o (IF DOMAIN rest = {} THEN <<>> ELSE NL \o MappingText(rest))

\* mutant: _extract_tech_specs returns the module-level mapping, which
\* _clean_page_content turns into text
StepSpecTextOfMapping ==
    /\ step = "spec_text"
    /\ frame' = [frame EXCEPT !.tech_specs = MappingText(tech_specs)]
    /\ step' = "main_content"
    /\ UNCHANGED <<pages_left, tech_specs, emitted>>
    /\ UNCHANGED restOfExtract
\* the rest of _extract_tech_specs: tech_specs_text is built and returned
StepSpecText ==
    /\ step = "spec_text"
    /\ frame' = [frame EXCEPT !.tech_specs = ExtractTechSpecs(frame.soup)]
    /\ step' = "main_content"
    /\ UNCHANGED <<pages_left, tech_specs, emitted>>
    /\ UNCHANGED restOfExtract

\* main_content = self._extract_main_content(soup)
StepMainContent ==
    /\ step = "main_content"
    /\ frame' = [frame EXCEPT !.main_content = ExtractMainContent(frame.soup)]
    /\ step' = "return"
    /\ UNCHANGED <<pages_left, tech_specs, emitted>>
    /\ UNCHANGED restOfExtract

\* return None or cleaned_page; if cleaned_page: cleaned_pages.append(...)
StepReturn ==
    /\ step = "return"
    /\ emitted' =
          IF NothingExtracted(frame.product_name, frame.product_description,
                              frame.tech_specs, frame.main_content)
          THEN emitted
          ELSE Append(emitted,
                      [url |-> frame.page.url,
                       company |-> frame.page.company,
                       product_name |-> frame.product_name,
                       description |-> frame.product_description,
                       tech_specs |-> frame.tech_specs,
                       content |-> frame.main_content])
    /\ frame' = NoFrame
    /\ step' = "idle"
    /\ UNCHANGED <<pages_left, tech_specs>>
    /\ UNCHANGED restOfExtract

NextExtract ==
    \/ StepCall \/ StepSanitize
    \/ StepNameMeta \/ StepNameSelectors \/ StepNameTitle \/ StepNameH1
    \/ StepNameUrl \/ StepNameRawTitle \/ StepNameCleanup
    \/ StepDescription
    \/ StepTables \/ StepDls \/ StepLists \/ StepParagraphs \/ StepDivs \/ StepSpecText
    \/ StepMainContent
    \/ StepReturn

----------------------------------------------------------------------------
(* Analyzer.analyze (src/analyzer.py), as main calls it for every record    *)
(* clean returned (src/main.py lines 78-79).  A Python value whose type the *)
(* code depends on carries it: a str or a dict, the dict as the list of its *)
(* items in insertion order.                                                *)

PyStr(s) == [type |-> "str", value |-> s]
PyDict(items) == [type |-> "dict", value |-> items]

\* self.max_retries = 3
max_retries == 3

\* product.get(key, default)
Get(d, key, default) == IF key \in DOMAIN d THEN d[key] ELSE default

\* the record clean returned, as the Python dict it is: tech_specs is the str
\* tech_specs_text (data_cleaner.py lines 594-606)
ProductOf(cleaned_page) ==
    [url |-> cleaned_page.url,
     company |-> cleaned_page.company,
     product_name |-> cleaned_page.product_name,
     description |-> cleaned_page.description,
     tech_specs |-> PyStr(cleaned_page.tech_specs),
     content |-> cleaned_page.content]

\* the products main gives to analyze: what clean returns for the modelled pages
CleanedProducts ==
    { ProductOf(cleaned_page) :
        cleaned_page \in { CleanPageContent(page) : page \in Pages \cup CallPages } \ {None} }

\* test_product of test_analyzer.py, and a product without tech specs
TestProduct ==
    [name |-> <<"U6D4B", "U8BD5", "U65E0", "U4EBA", "U673A">>,
     description |-> <<"U8FD9", "U662F", "U4E00", "U6B3E", "U9AD8", "U6027", "U80FD", "U7684", "U4E13", "U4E1A", "U7EA7", "U65E0", "U4EBA", "U673A", "UFF0C", "U914D", "U5907", "4", "K", "U9AD8", "U6E05", "U6444", "U50CF", "U5934", "UFF0C", "3", "0", "U5206", "U949F", "U7EED", "U822A", "U65F6", "U95F4", "UFF0C", "U6700", "U5927", "U98DE", "U884C", "U9AD8", "U5EA6", "5", "0", "0", "U7C73", "U3002">>,
     tech_specs |-> PyDict(<<Pair(<<"U6444", "U50CF", "U5934">>, <<"4", "K", "U9AD8", "U6E05">>), Pair(<<"U7EED", "U822A", "U65F6", "U95F4">>, <<"3", "0", "U5206", "U949F">>),
                             Pair(<<"U6700", "U5927", "U98DE", "U884C", "U9AD8", "U5EA6">>, <<"5", "0", "0", "U7C73">>), Pair(<<"U91CD", "U91CF">>, <<"1", ".", "2", "k", "g">>)>>)]

BareProduct == [name |-> <<"M", "i", "n", "i", " ", "4", " ", "P", "r", "o">>, description |-> <<>>]

Products == CleanedProducts \cup {TestProduct, BareProduct}

\* the answers of the endpoint: result['choices'][0]['message']['content']
Responses ==
    { <<"U7279", "U70B9", "UFF1A", "U8F7B", "U4FBF", "U6613", "U643A", "\n", "U5E94", "U7528", "U573A", "U666F", "UFF1A", "U822A", "U62CD">>,
      <<" ", " ", "U5E94", "U7528", "U573A", "U666F", "UFF1A", " ", "U5DE1", "U68C0", " ", "\n", "U7279", "U70B9", "UFF1A", "U957F", "U7EED", "U822A", "\n", "t", "h", "a", "n", "k", "s">>,
      <<"n", "o", " ", "l", "a", "b", "e", "l", "s">> }

\* tech_specs.items() exists: a str has no items()
HasItems(v) == v.type = "dict"

\* '\n'.join([f"{k}: {v}" for k, v in tech_specs.items()])
ItemsText(items) ==
    Join(NL, [n \in 1..Len(items) |-> items[n].key \o <<":", " ">> \o items[n].value])

\* _build_prompt when it does not raise: what the f-string is filled with
BuildPrompt(p) ==
    [name |-> Get(p, "name", <<>>),
     description |-> Get(p, "description", <<>>),
     tech_specs_text |-> ItemsText(Get(p, "tech_specs", PyDict(<<>>)).value)]

\* {'features': '', 'applications': ''}
EmptyResult == [features |-> <<>>, applications |-> <<>>]

\* the loop of _parse_response over the lines read so far
RECURSIVE ParseLines(_, _)
ParseLines(lines, result) ==
    IF lines = <<>> THEN result
    ELSE ParseLines(Tail(lines),
            IF StartsWith(Head(lines), <<"U7279", "U70B9", "UFF1A">>)
            THEN [result EXCEPT !.features = Strip(SubSeq(Head(lines), 4, Len(Head(lines))))]
            ELSE IF StartsWith(Head(lines), <<"U5E94", "U7528", "U573A", "U666F", "UFF1A">>)
            THEN [result EXCEPT !.applications = Strip(SubSeq(Head(lines), 6, Len(Head(lines))))]
            ELSE result)

\* _parse_response
ParseResponse(text) == ParseLines(Split(Strip(text), "\n"), EmptyResult)

InitAnalyze ==
    /\ product \in Products
    /\ apc = "build_prompt"
    /\ prompt = None
    /\ attempt = 0
    /\ posts = 0
    /\ sleeps = <<>>
    /\ response = None
    /\ analysis = None

\* prompt = self._build_prompt(product); the AttributeError of items() on a
\* str is caught by except Exception, which returns the empty result
StepBuildPrompt ==
    /\ apc = "build_prompt"
    /\ IF HasItems(Get(product, "tech_specs", PyDict(<<>>)))
       THEN /\ prompt' = BuildPrompt(product)
            /\ apc' = "request"
            /\ UNCHANGED analysis
       ELSE /\ analysis' = EmptyResult
            /\ apc' = "returned"
            /\ UNCHANGED prompt
    /\ UNCHANGED <<product, attempt, posts, sleeps, response>>
    /\ UNCHANGED restOfAnalyze

\* requests.post returns, raise_for_status passes, the answer is read
PostOk ==
    /\ apc = "request"
    /\ attempt < max_retries
    /\ posts' = posts + 1
    /\ \E r \in Responses : response' = r
    /\ apc' = "parse"
    /\ UNCHANGED <<product, prompt, attempt, sleeps, analysis>>
    /\ UNCHANGED restOfAnalyze

\* mutant: the failed attempt is followed by the back-off even when it was
\* the last one
PostFailsAndWaits ==
    /\ apc = "request"
    /\ attempt < max_retries
    /\ posts' = posts + 1
    /\ apc' = "sleep"
    /\ UNCHANGED <<product, prompt, attempt, sleeps, response, analysis>>
    /\ UNCHANGED restOfAnalyze
\* requests.post or raise_for_status raises Timeout or another
\* RequestException: re-raised on the last attempt, which except Exception
\* of analyze turns into the empty result
PostFails ==
    /\ apc = "request"
    /\ attempt < max_retries
    /\ posts' = posts + 1
    /\ IF attempt = max_retries - 1
       THEN /\ analysis' = EmptyResult
            /\ apc' = "returned"
       ELSE /\ apc' = "sleep"
            /\ UNCHANGED analysis
    /\ UNCHANGED <<product, prompt, attempt, sleeps, response>>
    /\ UNCHANGED restOfAnalyze

\* the answer lacks result['choices'][0]['message']['content']: the KeyError
\* leaves the loop and except Exception of analyze returns the empty result
PostBadAnswer ==
    /\ apc = "request"
    /\ attempt < max_retries
    /\ posts' = posts + 1
    /\ analysis' = EmptyResult
    /\ apc' = "returned"
    /\ UNCHANGED <<product, prompt, attempt, sleeps, response>>
    /\ UNCHANGED restOfAnalyze

\* time.sleep(2 ** attempt), and the next round of the for loop
Backoff ==
    /\ apc = "sleep"
    /\ sleeps' = Append(sleeps, 2 ^ attempt)
    /\ attempt' = attempt + 1
    /\ apc' = "request"
    /\ UNCHANGED <<product, prompt, posts, response, analysis>>
    /\ UNCHANGED restOfAnalyze

\* features, applications = self._parse_response(response); return {...}
StepParse ==
    /\ apc = "parse"
    /\ analysis' = ParseResponse(response)
    /\ apc' = "returned"
    /\ UNCHANGED <<product, prompt, attempt, posts, sleeps, response>>
    /\ UNCHANGED restOfAnalyze

NextAnalyze ==
    StepBuildPrompt \/ PostOk \/ PostFails \/ PostBadAnswer \/ Backoff \/ StepParse

----------------------------------------------------------------------------
(* Specifications *)

\* no call of _clean_page_content is in progress or to come
ExtractIdle == InitExtract(<<>>)

\* no call of analyze is in progress
AnalyzeIdle ==
    /\ product = None
    /\ apc = "idle"
    /\ prompt = None
    /\ attempt = 0
    /\ posts = 0
    /\ sleeps = <<>>
    /\ response = None
    /\ analysis = None

\* the crawled site is open: a fetch can give anything
OpenSite == site = Anything

\* no clean call is in progress
CleanIdle ==
    /\ raw_data = <<>>
    /\ product_pages = <<>>
    /\ cleaned_pages = <<>>
    /\ cstage = "idle"

\* no crawl call is in progress
CrawlIdle ==
    /\ max_pages = 0
    /\ start_url \in StartUrls
    /\ domain = Netloc(start_url)
    /\ visited_urls = {}
    /\ to_visit = <<>>
    /\ results = <<>>
    /\ page_count = 0
    /\ pc = "idle"
    /\ requested = <<>>
    /\ failed = {}
    /\ delays = 0

\* one call of Crawler.crawl
Init == InitCrawl /\ CleanIdle /\ ExtractIdle /\ AnalyzeIdle /\ OpenSite

Next == NextCrawl

Spec == Init /\ [][Next]_vars

\* one call of DataCleaner.clean
InitCleanOnly == InitClean /\ CrawlIdle /\ ExtractIdle /\ AnalyzeIdle /\ OpenSite

SpecClean == InitCleanOnly /\ [][NextClean]_vars

\* one call of _clean_page_content, for any of the modelled pages
InitCleanPage ==
    /\ \E page \in CallPages : InitExtract(<<page>>)
    /\ CrawlIdle /\ CleanIdle /\ AnalyzeIdle /\ OpenSite

SpecCleanPage == InitCleanPage /\ [][NextExtract]_vars

\* the calls of _clean_page_content for up to MaxCalls pages in a row
InitCleanPages ==
    /\ \E pages \in SeqsUpTo(TechSpecPages, MaxCalls) : InitExtract(pages)
    /\ CrawlIdle /\ CleanIdle /\ AnalyzeIdle /\ OpenSite

SpecCleanPages == InitCleanPages /\ [][NextExtract]_vars

\* one call of Analyzer.analyze
InitAnalyzeOnly == InitAnalyze /\ CrawlIdle /\ CleanIdle /\ ExtractIdle /\ OpenSite

SpecAnalyze == InitAnalyzeOnly /\ [][NextAnalyze]_vars

\* one crawl of a given site
InitSiteOnly == InitSite /\ CleanIdle /\ ExtractIdle /\ AnalyzeIdle

SpecSite == InitSiteOnly /\ [][NextCrawl]_vars

\* The loop is sequential code: whenever an iteration (or the return) is
\* possible it is eventually executed; requests.get returns or times out.
SpecLive == Init /\ [][Next]_vars /\ WF_vars(NextCrawl)

----------------------------------------------------------------------------
(* Properties of Crawler.crawl *)

ResultUrls == { results[i].url : i \in 1..Len(results) }

NoRepeat(s) == \A i, j \in 1..Len(s) : s[i] = s[j] => i = j

\* C1: the result has at most max_pages entries, 0 <= page_count <= max_pages
\* in every state of the loop, and with max_pages = 0 no request is made and
\* the result is empty.
C1_PageCountBound ==
    /\ Len(results) <= max_pages
    /\ 0 <= page_count
    /\ page_count <= max_pages
    /\ (max_pages = 0 => requested = <<>> /\ results = <<>>)

\* the cap stopped the crawl: the queue still holds URLs
C1_Witness ==
    /\ pc = "done"
    /\ max_pages > 0
    /\ Len(results) = max_pages
    /\ to_visit # <<>>

\* C2: no URL appears twice in the returned sequence, even when it sits in
\* the queue more than once.
C2_NoUrlTwice == NoRepeat([i \in 1..Len(results) |-> results[i].url])

\* a URL that was already returned still sits in the queue twice
C2_Witness ==
    \E i, j \in 1..Len(to_visit) :
        /\ i < j
        /\ to_visit[i] = to_visit[j]
        /\ to_visit[i] \in ResultUrls

\* C3 as stated: every returned URL has the scheme and the netloc of the
\* start URL.
C3_SameSchemeAndNetloc ==
    \A u \in ResultUrls :
        /\ u.scheme = start_url.scheme
        /\ Netloc(u) = Netloc(start_url)

\* C3 as amended: every returned URL has the netloc (host[:port]) of the
\* start URL; the scheme is not compared.
C3_SameNetloc == \A u \in ResultUrls : Netloc(u) = Netloc(start_url)

\* a page with the start URL's host but the other scheme was returned
C3_Witness ==
    \E u \in ResultUrls :
        /\ Netloc(u) = Netloc(start_url)
        /\ u.scheme # start_url.scheme

\* C4: a URL whose fetch fails is never requested again, adds nothing to
\* page_count or the result, the loop goes on with the rest of the queue,
\* and crawl does not raise.
C4_FailedUrlAbandoned ==
    /\ [](NoRepeat(requested) /\ failed \cap ResultUrls = {})
    /\ [][failed' # failed =>
            /\ page_count' = page_count
            /\ results' = results
            /\ to_visit' = Tail(to_visit)
            /\ pc' = "loop"]_vars

\* a fetch failed, a later one succeeded, and the failed URL was linked again
C4_Witness ==
    /\ \E i, j \in 1..Len(requested) :
        /\ i < j
        /\ requested[i] \in failed
        /\ requested[j] \in ResultUrls
    /\ \E k \in 1..Len(to_visit) : to_visit[k] \in failed

\* C5 as stated: the queue never holds the same URL twice.
C5_QueueHoldsNoUrlTwice == NoRepeat(to_visit)

\* C5 as amended: the enqueue step checks the candidate against the visited
\* set only: every URL appended in an iteration is not in visited_urls, and
\* nothing is appended in an iteration that makes no request.
C5_AppendedNotVisited ==
    [][IF requested' # requested
       THEN \A i \in Len(to_visit)..Len(to_visit') :
                to_visit'[i] \notin visited_urls'
       ELSE Len(to_visit') <= Len(to_visit)]_vars

\* the queue holds a URL twice
C5_Witness ==
    \E i, j \in 1..Len(to_visit) : i < j /\ to_visit[i] = to_visit[j]

\* C6: page_count counts the successful fetches: it equals the number of
\* entries in the result and the number of requests that did not fail.
C6_CountsSuccessfulFetches ==
    /\ page_count = Len(results)
    /\ page_count = Len(requested) - Cardinality(failed)

\* a finished run with a failed fetch and two fetched pages
C6_Witness ==
    /\ pc = "done"
    /\ failed # {}
    /\ page_count >= 2

\* C7: crawl terminates, and when it has terminated the queue is empty or
\* page_count equals max_pages.
C7_Terminates ==
    /\ <>(pc = "done")
    /\ [](pc = "done" => (to_visit = <<>> \/ page_count = max_pages))

\* the crawl ended because the queue ran empty below the cap
C7_Witness ==
    /\ pc = "done"
    /\ to_visit = <<>>
    /\ 1 <= page_count
    /\ page_count < max_pages

\* C8: when a successful fetch starts, every earlier successful fetch has
\* been followed by its delay.
C8_DelayAfterEachFetch ==
    [][page_count' = page_count + 1 => delays >= page_count]_vars

----------------------------------------------------------------------------
(* Properties of DataCleaner *)

\* the four fields extracted from the sanitized page, for each modelled page
FieldsOf ==
    [page \in Pages |->
        Only({ [product_name |-> ExtractProductName(soup, page.url),
                description |-> ExtractProductDescription(soup),
                tech_specs |-> ExtractTechSpecs(soup),
                content |-> ExtractMainContent(soup)] :
               soup \in {RemoveIrrelevantElements(page.html)} })]

AllFieldsEmpty(f) ==
    /\ f.product_name = <<>>
    /\ f.description = <<>>
    /\ f.tech_specs = <<>>
    /\ f.content = <<>>

\* C9: _clean_page_content gives None exactly for the pages whose sanitized
\* document yields an empty name, description, tech specs and main content,
\* and every record clean returns has one of the four fields non-empty.
C9_EmptyRecordSuppressed ==
    cstage = "done" =>
        LET kept == SelectSeq(product_pages, LAMBDA page : ~AllFieldsEmpty(FieldsOf[page]))
        IN /\ Len(cleaned_pages) = Len(kept)
           /\ \A n \in 1..Len(cleaned_pages) :
                /\ cleaned_pages[n].url = kept[n].url
                /\ cleaned_pages[n].product_name = FieldsOf[kept[n]].product_name
                /\ cleaned_pages[n].content = FieldsOf[kept[n]].content
                /\ ~AllFieldsEmpty(cleaned_pages[n])

\* of two accepted pages one yields nothing and is dropped, the other is
\* returned with its main content as its only field
C9_Witness ==
    /\ cstage = "done"
    /\ Len(product_pages) = 2
    /\ Len(cleaned_pages) = 1
    /\ cleaned_pages[1].product_name = <<>>
    /\ cleaned_pages[1].description = <<>>
    /\ cleaned_pages[1].tech_specs = <<>>

\* for each modelled page: whether its URL matches a product pattern, whether
\* its text holds a keyword, and the content signal as the claim states it
UrlMatchesOf == [page \in Pages |-> UrlMatchesPattern(page.url)]
KeywordMatchOf == [page \in Pages |-> KeywordMatch(page.content)]
SignalPassesOf == [page \in Pages |-> page.conf > (IF KeywordMatchOf[page] THEN 20 ELSE 30)]

\* C10: a page is accepted iff its URL matches a product pattern and its
\* confidence is above 0.2 with a keyword in the text, above 0.3 without;
\* a page whose URL matches no pattern is never accepted, and of two pages
\* with the same URL and confidence the one with the keyword is accepted
\* whenever the one without is.
C10_Classifier ==
    cstage = "done" =>
        /\ product_pages =
              SelectSeq(raw_data, LAMBDA page : UrlMatchesOf[page] /\ SignalPassesOf[page])
        /\ \A n \in 1..Len(product_pages) : UrlMatchesOf[product_pages[n]]
        /\ \A i, j \in 1..Len(raw_data) :
              ( /\ raw_data[i].url = raw_data[j].url
                /\ raw_data[i].conf = raw_data[j].conf
                /\ ~KeywordMatchOf[raw_data[i]]
                /\ KeywordMatchOf[raw_data[j]]
                /\ \E n \in 1..Len(product_pages) : product_pages[n] = raw_data[i] )
              => \E n \in 1..Len(product_pages) : product_pages[n] = raw_data[j]

\* two pages with the same matching URL and the same confidence between the
\* thresholds: the one with the keyword is accepted, the other is not
C10_Witness ==
    /\ cstage = "done"
    /\ Len(raw_data) = 2
    /\ raw_data[1].url = raw_data[2].url
    /\ raw_data[1].conf = raw_data[2].conf
    /\ ~KeywordMatchOf[raw_data[1]]
    /\ KeywordMatchOf[raw_data[2]]
    /\ product_pages = <<raw_data[2]>>

----------------------------------------------------------------------------
(* Properties of the extractors of DataCleaner *)

\* the steps of _extract_product_name, in the order they run
NameSteps ==
    <<"name_meta", "name_selectors", "name_title", "name_h1", "name_url",
      "name_raw_title", "name_cleanup">>

\* the steps of a call at which _extract_product_name has returned
AfterName ==
    {"description", "spec_tables", "spec_dls", "spec_lists", "spec_paragraphs",
     "spec_divs", "spec_text", "main_content", "return"}

\* what each of the six strategies yields for the page of the running call
Candidates ==
    <<NameFromMeta(frame.soup), NameFromSelectors(frame.soup), NameFromTitle(frame.soup),
      NameFromH1(frame.soup), NameFromUrl(frame.page.url), NameFromRawTitle(frame.soup)>>

\* what the first of the first k strategies that yields a candidate yields
FirstCandidate(k) ==
    IF \E i \in 1..k : Candidates[i] # <<>>
    THEN Candidates[CHOOSE i \in 1..k :
                        Candidates[i] # <<>> /\ \A j \in 1..(i - 1) : Candidates[j] = <<>>]
    ELSE <<>>

\* the content of the og:title meta tag of the running call's page, stripped
OgTitle ==
    LET meta == FindMeta(frame.soup, "prop", <<"o", "g", ":", "t", "i", "t", "l", "e">>)
    IN IF meta = 0 THEN <<>> ELSE Strip(frame.soup[meta].content)

\* C11 as stated: the name returned is what the first strategy that yields a
\* candidate yields, and with an og:title longer than 3 it is the meta-tag
\* content.
C11_FirstStrategyResult ==
    step \in AfterName =>
        /\ frame.product_name = FirstCandidate(6)
        /\ Len(OgTitle) > NameMinLen => frame.product_name = OgTitle

\* C11 as amended: while the cascade runs, product_name is what the first
\* strategy so far that yielded a candidate yielded, so a later strategy
\* changes nothing once one has; the name returned is that candidate after
\* the clean-up (whitespace runs collapsed, a trailing site-suffix phrase cut
\* off); with an og:title longer than 3 it is the cleaned meta-tag content,
\* whatever the title.
C11_FirstStrategyCleaned ==
    /\ \A k \in 1..Len(NameSteps) :
          step = NameSteps[k] => frame.product_name = FirstCandidate(k - 1)
    /\ step \in AfterName =>
          /\ frame.product_name = CleanName(FirstCandidate(6))
          /\ Len(OgTitle) > NameMinLen => frame.product_name = CleanName(OgTitle)

\* a page with an og:title and a title that gives another name: the name
\* returned is the meta-tag content as the clean-up changed it
C11_Witness ==
    /\ step = "return"
    /\ Len(OgTitle) > NameMinLen
    /\ NameFromTitle(frame.soup) # <<>>
    /\ CleanName(NameFromTitle(frame.soup)) # frame.product_name
    /\ frame.product_name = <<"P", "h", "a", "n", "t", "o", "m", " ", "X">>
    /\ frame.product_name # OgTitle

\* the steps of a call at which _extract_product_description has returned
AfterDescription ==
    {"spec_tables", "spec_dls", "spec_lists", "spec_paragraphs", "spec_divs",
     "spec_text", "main_content", "return"}

\* the stripped texts, over 50 characters long, of the <p> and <div> elements
\* of the running call's document whose class holds a description marker
ClassDescriptions ==
    LET found == SelectSeq(Elements(frame.soup), LAMBDA i :
                     /\ frame.soup[i].tag \in {"p", "div"}
                     /\ \E n \in DOMAIN DescriptionClasses :
                            Contains(Lower(frame.soup[i].cls), DescriptionClasses[n])
                     /\ Len(Strip(ElText(frame.soup, i))) > 50)
    IN [n \in 1..Len(found) |-> Strip(ElText(frame.soup, found[n]))]

\* the stripped texts, over 100 characters long, of the <p> elements
LongTexts ==
    LET found == SelectSeq(Elements(frame.soup), LAMBDA i :
                     /\ frame.soup[i].tag = "p"
                     /\ Len(Strip(ElText(frame.soup, i))) > 100)
    IN [n \in 1..Len(found) |-> Strip(ElText(frame.soup, found[n]))]

\* the length of the first n texts, each followed by a newline
Accumulated(texts, n) == Len(Concat([k \in 1..n |-> texts[k] \o NL]))

\* how many of the long paragraphs are taken: up to and including the first
\* that brings the accumulated length over 500
Taken ==
    IF \E n \in 1..Len(LongTexts) : Accumulated(LongTexts, n) > 500
    THEN CHOOSE n \in 1..Len(LongTexts) :
             /\ Accumulated(LongTexts, n) > 500
             /\ \A m \in 1..(n - 1) : Accumulated(LongTexts, m) <= 500
    ELSE Len(LongTexts)

\* C12: with a description-class element of more than 50 characters the
\* description is made of those elements alone; without one it is made of
\* the <p> elements of more than 100 characters, in document order, up to
\* and including the one that brings the accumulated length over 500; three
\* class-less paragraphs of 40, 60 and 120 characters give the 120-character
\* paragraph alone.
C12_DescriptionFallback ==
    step \in AfterDescription =>
        /\ ClassDescriptions # <<>> =>
              frame.product_description =
                  Strip(Concat([n \in 1..Len(ClassDescriptions) |->
                                   ClassDescriptions[n] \o NL]))
        /\ ClassDescriptions = <<>> =>
              frame.product_description =
                  Strip(Concat([n \in 1..Taken |-> LongTexts[n] \o NL]))
        /\ frame.page.html = DocThreeParas =>
              frame.product_description = Rep("c", 120)

\* five paragraphs of 150 characters and no description-class element: the
\* fourth brings the length over 500, the fifth is left out
C12_Witness ==
    /\ step = "return"
    /\ ClassDescriptions = <<>>
    /\ Len(LongTexts) = 5
    /\ Taken = 4
    /\ Len(frame.product_description) = 603

----------------------------------------------------------------------------
(* Properties of the tech-spec mapping of DataCleaner *)

\* the steps of a call at which every strategy of _extract_tech_specs has run
AfterStrategies == {"spec_text", "main_content", "return"}

\* the rows of a document
Rows(dom) == SelectSeq(Elements(dom), LAMBDA i : dom[i].tag = "tr")

\* the cells of a row: its td and th children
RowCells(dom, row) ==
    SelectSeq(Elements(dom), LAMBDA i : dom[i].parent = row /\ dom[i].tag \in {"td", "th"})

\* a text that the cell clean-up and the key clean-up leave as it is and
\* that the key test accepts
OrdinaryText(text) ==
    /\ text # <<>>
    /\ Len(text) < 100
    /\ \E i \in 1..Len(text) : text[i] \notin Digits
    /\ text[Len(text)] \notin {":", "UFF1A", "*"}
    /\ \A i \in 1..Len(text) : text[i] \notin {"\n", "\t"}
    /\ text[1] # " " /\ text[Len(text)] # " "
    /\ \A i \in 1..(Len(text) - 1) : ~(text[i] = " " /\ text[i + 1] = " ")

\* a document whose only structure is one table of two-cell rows of ordinary
\* texts, with a spec keyword in the text of the table
TwoColumnKeywordTable(dom) ==
    /\ dom # <<>>
    /\ dom[1].tag = "table"
    /\ \A i \in 2..Len(dom) :
          \/ dom[i].tag \in {"caption", "tr"} /\ dom[i].parent = 1 /\ dom[i].cls = <<>>
          \/ dom[i].tag = "td" /\ dom[dom[i].parent].tag = "tr" /\ dom[i].cls = <<>>
    /\ Rows(dom) # <<>>
    /\ \A n \in DOMAIN Rows(dom) :
          /\ Len(RowCells(dom, Rows(dom)[n])) = 2
          /\ \A c \in DOMAIN RowCells(dom, Rows(dom)[n]) :
                OrdinaryText(dom[RowCells(dom, Rows(dom)[n])[c]].text)
    /\ \E k \in DOMAIN spec_keywords :
          Contains(Lower(Concat([i \in 1..Len(dom) |-> dom[i].text])),
                   Lower(spec_keywords[k]))

\* the mapping of the rows: the first cell of each row to the second cell of
\* the last row that starts with it
RowMapping(dom) ==
    [key \in { dom[RowCells(dom, Rows(dom)[n])[1]].text : n \in DOMAIN Rows(dom) } |->
        LET last == CHOOSE n \in DOMAIN Rows(dom) :
                        /\ dom[RowCells(dom, Rows(dom)[n])[1]].text = key
                        /\ \A m \in DOMAIN Rows(dom) :
                              dom[RowCells(dom, Rows(dom)[m])[1]].text = key => m <= n
        IN dom[RowCells(dom, Rows(dom)[last])[2]].text]

\* C13: for a page whose only spec structure is a two-column table with a
\* spec keyword in its text, the mapping after extraction is exactly the
\* mapping of the rows, first cell to second cell, with no other key.
C13_TableMapping ==
    (step \in AfterStrategies /\ TwoColumnKeywordTable(frame.page.html)) =>
        tech_specs = RowMapping(frame.page.html)

\* the first call of a process: there the mapping is that of the rows
C13_FirstCall ==
    (step \in AfterStrategies /\ TwoColumnKeywordTable(frame.page.html) /\ emitted = <<>>) =>
        tech_specs = RowMapping(frame.page.html)

----------------------------------------------------------------------------
(* Properties of the sanitizer of DataCleaner *)

\* the steps of a call at which _remove_irrelevant_elements has returned
AfterSanitize ==
    {"name_meta", "name_selectors", "name_title", "name_h1", "name_url",
     "name_raw_title", "name_cleanup", "description", "spec_tables", "spec_dls",
     "spec_lists", "spec_paragraphs", "spec_divs", "spec_text", "main_content", "return"}

\* the tags the sanitizer removes
BlockedTags == {"script", "style", "iframe", "noscript", "nav", "header", "footer"}

\* the class markers the sanitizer removes
BlockedMarkers ==
    { AdWords[n] : n \in DOMAIN AdWords } \cup { SocialWords[n] : n \in DOMAIN SocialWords }
        \cup { CommentWords[n] : n \in DOMAIN CommentWords }

\* an element the sanitizer is to remove
Blocked(el) ==
    \/ el.tag \in BlockedTags
    \/ \E word \in BlockedMarkers : Contains(Lower(el.cls), word)

\* C14: once a tree is sanitized, sanitizing it again removes nothing, and it
\* holds no element with a blocked tag or with a blocked marker in its
\* class, however the removed subtrees were nested in the page.
C14_SanitizeIdempotent ==
    step \in AfterSanitize =>
        /\ RemoveIrrelevantElements(frame.soup) = frame.soup
        /\ \A i \in DOMAIN frame.soup : ~Blocked(frame.soup[i])

\* a page with a script in a nav in a banner and a share box in a footer:
\* blocked elements lay inside blocked elements, and something is left
C14_Witness ==
    /\ step = "name_meta"
    /\ \E i, j, k \in DOMAIN frame.page.html :
          /\ i < j /\ j < k
          /\ InSubtree(frame.page.html, i, j) /\ InSubtree(frame.page.html, j, k)
          /\ Blocked(frame.page.html[i]) /\ Blocked(frame.page.html[j])
          /\ Blocked(frame.page.html[k])
    /\ \E i \in DOMAIN frame.page.html : frame.page.html[i].tag = "footer"
    /\ frame.soup # <<>>
    /\ Len(frame.soup) < Len(frame.page.html)

----------------------------------------------------------------------------
(* Properties of Analyzer.analyze *)

\* C15: for a product record that clean emitted, analyze has made at least
\* one request attempt when it returns its result.
C15_RequestAttempted ==
    (apc = "returned" /\ product \in CleanedProducts) => posts >= 1

\* the table a row belongs to
TableOf(dom, row) ==
    First(SelectSeq(Elements(dom), LAMBDA t : dom[t].tag = "table" /\ InSubtree(dom, t, row)))

\* the rows of more than two cells, all of ordinary text, in a table whose
\* text holds a spec keyword
WideRows(dom) ==
    SelectSeq(Rows(dom), LAMBDA row :
        /\ Len(RowCells(dom, row)) > 2
        /\ \A c \in DOMAIN RowCells(dom, row) : OrdinaryText(dom[RowCells(dom, row)[c]].text)
        /\ TableOf(dom, row) # 0
        /\ \E k \in DOMAIN spec_keywords :
              Contains(Lower(ElText(dom, TableOf(dom, row))), Lower(spec_keywords[k])))

\* the header rows a row can be paired with: the other rows of its table
\* that hold a th and have as many cells
HeaderRowsFor(dom, row) ==
    SelectSeq(Rows(dom), LAMBDA r :
        /\ r # row
        /\ TableOf(dom, r) = TableOf(dom, row)
        /\ \E c \in DOMAIN RowCells(dom, r) : dom[RowCells(dom, r)[c]].tag = "th"
        /\ Len(RowCells(dom, r)) = Len(RowCells(dom, row)))

\* the mapping holds key with value
Holds(key, value) == key \in DOMAIN tech_specs /\ tech_specs[key] = value

\* C16: after the table strategy of the first call, a row of more than two
\* cells is not stored as first cell -> second cell; when its table has a
\* header row of as many cells, each header cell is stored with the cell of
\* the row below it.
C16_WideRowsPairedWithHeader ==
    (step = "spec_dls" /\ emitted = <<>>) =>
        \A n \in DOMAIN WideRows(frame.soup) :
            LET row == WideRows(frame.soup)[n]
                cells == RowCells(frame.soup, row)
                headers == HeaderRowsFor(frame.soup, row)
            IN /\ ~Holds(frame.soup[cells[1]].text, frame.soup[cells[2]].text)
               /\ (headers # <<>> /\ \E c \in DOMAIN cells : frame.soup[cells[c]].tag = "td") =>
                     \A i \in DOMAIN cells :
                         Holds(frame.soup[RowCells(frame.soup, headers[1])[i]].text,
                               frame.soup[cells[i]].text)

\* C17: every key of the mapping, as stored, is non-empty, is not made of
\* digits only and is at most 100 characters long.
C17_StoredKeysValid ==
    \A key \in DOMAIN tech_specs :
        /\ key # <<>>
        /\ \E i \in 1..Len(key) : key[i] \notin Digits
        /\ Len(key) <= 100

\* what the five strategies find on the page of the running call, in the
\* order table, definition list, list, paragraph/div, spec-item div
StrategyPairs ==
    <<TablePairs(frame.soup), DlPairs(frame.soup), ListPairs(frame.soup),
      ParagraphPairs(frame.soup), DivPairs(frame.soup)>>

\* the step of a call that follows each strategy
StepAfterStrategy == <<"spec_dls", "spec_lists", "spec_paragraphs", "spec_divs", "spec_text">>

\* in pairs, what the strategies found, strategy s stores key with the value
\* of its pair n
Produces(pairs, s, n, key) ==
    /\ n \in DOMAIN pairs[s]
    /\ Accepted(pairs[s][n])
    /\ StripKeySuffix(pairs[s][n].key) = key

\* C18: when the first k strategies have run, a key that one of them
\* produced holds the value of the last pair of the last of them that
\* produced it, whatever an earlier strategy stored for it.
C18_LastStrategyWins ==
    \A k \in DOMAIN StepAfterStrategy :
        step = StepAfterStrategy[k] =>
            LET pairs == StrategyPairs
            IN \A s \in 1..k : \A n \in DOMAIN pairs[s] :
                   LET key == StripKeySuffix(pairs[s][n].key)
                   IN (/\ Accepted(pairs[s][n])
                       /\ \A m \in DOMAIN pairs[s] : m > n => ~Produces(pairs, s, m, key)
                       /\ \A t \in (s + 1)..k : \A m \in DOMAIN pairs[t] :
                              ~Produces(pairs, t, m, key))
                      => Holds(key, pairs[s][n].value)

\* a page on which the table and the spec-item div produce different values
\* for one key: after the last strategy the key holds the value of the div
C18_Witness ==
    /\ step = "spec_text"
    /\ LET pairs == StrategyPairs
       IN /\ \E n \in DOMAIN pairs[1] : \E m \in DOMAIN pairs[5] :
                /\ Accepted(pairs[1][n]) /\ Accepted(pairs[5][m])
                /\ StripKeySuffix(pairs[1][n].key) = StripKeySuffix(pairs[5][m].key)
                /\ pairs[1][n].value # pairs[5][m].value
                /\ Holds(StripKeySuffix(pairs[5][m].key), pairs[5][m].value)
          /\ \A s \in 2..4 : \E n \in DOMAIN pairs[s] : Accepted(pairs[s][n])

----------------------------------------------------------------------------
(* Properties of a crawl of a given site *)

\* the URLs of the pages returned
ReturnedUrls == { results[i].url : i \in DOMAIN results }

\* the same-domain http(s) URLs a page of the site links to
LinkedFrom(u) ==
    { v \in { Urljoin(u, site.pages[u].links[n]) :
                  n \in { m \in DOMAIN site.pages[u].links :
                              site.pages[u].links[m].kind # "bad" } } :
        v.netloc = start_url.netloc /\ v.scheme \in {HTTP, HTTPS} }

\* the returned pages within n links of the start URL, over returned pages
RECURSIVE Within(_)
Within(n) ==
    IF n = 0 THEN {start_url} \cap ReturnedUrls
    ELSE Within(n - 1) \cup
            { v \in ReturnedUrls : \E u \in Within(n - 1) : v \in LinkedFrom(u) }

\* the link distance of a returned page from the start URL
Distance(u) ==
    CHOOSE n \in 0..Len(results) : u \in Within(n) /\ \A m \in 0..(n - 1) : u \notin Within(m)

\* C19: when crawl has returned, the link distance from the start URL does
\* not decrease along the returned sequence.
C19_BreadthFirstOrder ==
    (pc = "done" /\ ~site.any) =>
        \A i, j \in DOMAIN results :
            i < j => Distance(results[i].url) <= Distance(results[j].url)

\* C20: when crawl has returned fewer than max_pages pages, the queue is
\* empty and every same-domain http(s) URL that a returned page links to has
\* been visited.
C20_ClosedUnderLinks ==
    (pc = "done" /\ ~site.any /\ Len(results) < max_pages) =>
        /\ to_visit = <<>>
        /\ \A u \in ReturnedUrls : LinkedFrom(u) \subseteq visited_urls

\* a site none of whose pages holds an href that urljoin rejects
NoBadHref ==
    \A u \in DOMAIN site.pages : \A n \in DOMAIN site.pages[u].links :
        site.pages[u].links[n].kind # "bad"

\* on such a site the order is breadth-first and a short crawl is closed
BreadthFirstWithoutBadHref == (~site.any /\ NoBadHref) => C19_BreadthFirstOrder
ClosedWithoutBadHref == (~site.any /\ NoBadHref) => C20_ClosedUnderLinks

\* C21: analyze makes at most three request attempts and makes no further
\* one after an attempt that succeeded; it waits 1 and then 2 seconds, each
\* wait between a failed attempt and the next one and none after the last;
\* it always returns a result with both fields, and after three failed
\* attempts both are empty.
C21_BoundedRetries ==
    /\ posts <= 3
    /\ sleeps = SubSeq(<<1, 2>>, 1, Len(sleeps))
    /\ apc = "request" => posts = Len(sleeps) /\ response = None
    /\ apc = "sleep" => posts = Len(sleeps) + 1 /\ posts < 3 /\ response = None
    /\ apc = "parse" => posts = Len(sleeps) + 1 /\ response # None
    /\ apc = "returned" =>
          /\ posts = 0 \/ posts = Len(sleeps) + 1
          /\ DOMAIN analysis = {"features", "applications"}
          /\ (posts = 3 /\ response = None) =>
                analysis = [features |-> <<>>, applications |-> <<>>]

\* three attempts failed: two waits, of 1 and 2 seconds, and empty strings
C21_Witness ==
    /\ apc = "returned"
    /\ posts = 3
    /\ response = None
    /\ sleeps = <<1, 2>>
    /\ analysis = [features |-> <<>>, applications |-> <<>>]

----------------------------------------------------------------------------
(* Properties of successive calls of _clean_page_content *)

\* what one call returns for a page with this url, company and html when
\* nothing was cleaned before it
RecordOf(url, company, html) ==
    CleanPageContent([url |-> url, company |-> company, html |-> html])

\* C22: whatever pages were cleaned before and whatever they left in the
\* module-level mapping, the call for a page emits the record that its url,
\* company and html alone determine, or none when they determine none.
C22_RecordOfPageAlone ==
    [][step = "return" =>
          LET record == RecordOf(frame.page.url, frame.page.company, frame.page.html)
          IN emitted' = IF record = None THEN emitted ELSE Append(emitted, record)]_vars

\* the record of the keyword-table page was emitted after another page left
\* the key Range in the mapping
C22_Witness ==
    /\ step = "idle"
    /\ Len(emitted) = 2
    /\ emitted[2] = RecordOf(UrlTech, "DJI", DocTableKw)
    /\ emitted[1] # emitted[2]
    /\ <<"R", "a", "n", "g", "e">> \in DOMAIN tech_specs

====
